---- MODULE Spec2Model ----
(***************************************************************************)
(* OpenMediaTrust: the manifest integrity and trust engine.                *)
(*                                                                         *)
(*   core/models.py        Manifest, Assertion, Signature                  *)
(*   core/signer.py        Signer (sign / verify, algorithm dispatch)      *)
(*   verification/validator.py   ManifestValidator (trust evaluation)      *)
(*                                                                         *)
(* Byte strings are sequences of naturals.  Ordinary bytes are 0..255; the *)
(* digests of hashlib and the RSA-PSS primitive of the cryptography        *)
(* library are idealised as collision-free: a digest is a tag token (>255) *)
(* followed by the hashed input.                                           *)
(***************************************************************************)
EXTENDS Integers, Sequences, FiniteSets, TLC

VARIABLES
    manifest,   \* the Manifest object a session works on
    signer,     \* the Signer object of the session
    trusted_certificates, \* ManifestValidator.trusted_certificates
    sinceSign,  \* history: "none" | "unchanged" | "mutated" since the last sign() call
    op,         \* the last operation of the session and what it returned or raised
    prim,       \* the last application of the signature primitives to raw bytes
    decision,   \* the last application of the trust-level / validity decision
    engine,     \* the PolicyEngine object: policies and custom_functions
    evaluation, \* the last PolicyEngine.evaluate call and what it returned or raised
    workflows,  \* WorkflowEngine.workflows: workflow id -> WorkflowInstance
    call        \* the last call on the workflow engine or on the assertion builders

vars == <<manifest, signer, trusted_certificates, sinceSign, op, prim, decision, engine, evaluation, workflows, call>>

Min(a, b) == IF a <= b THEN a ELSE b

(***************************************************************************)
(* core/models.py: SignatureAlgorithm                                      *)
(***************************************************************************)
RSA_PSS == {"ps256", "ps384", "ps512"}
ECDSA == {"es256", "es384", "es512"}
ML_DSA == {"ml-dsa-44", "ml-dsa-65", "ml-dsa-87"}
SLH_DSA == {"slh-dsa-sha2-128s", "slh-dsa-sha2-256s"}
HYBRID == {"hybrid-rsa-ml-dsa-65", "hybrid-ecdsa-ml-dsa-65"}
SignatureAlgorithm == RSA_PSS \cup ECDSA \cup ML_DSA \cup SLH_DSA \cup HYBRID

(***************************************************************************)
(* Key material.  Signer._private_key is None, an RSAPrivateKey object     *)
(* (kind "rsa") or the raw bytes of the key file (kind "bytes").           *)
(***************************************************************************)
NoKey == [kind |-> "none", bytes |-> <<>>]
PemFile == [fmt |-> "pem", bytes |-> <<5>>]   \* KeyGenerator.generate_rsa_keypair
RawFile == [fmt |-> "raw", bytes |-> <<7>>]   \* KeyGenerator.generate_ml_dsa_keypair
NoFile == [fmt |-> "none", bytes |-> <<>>]
KeyFiles == {NoFile, PemFile, RawFile}

\* Signer._load_private_key: PEM parsing for the RSA-PSS tags, raw bytes otherwise
_load_private_key(algorithm, file) ==
    IF algorithm \in RSA_PSS
    THEN IF file.fmt = "pem"
         THEN [exc |-> "none", key |-> [kind |-> "rsa", bytes |-> file.bytes]]
         ELSE [exc |-> "ValueError", key |-> NoKey]
    ELSE [exc |-> "none", key |-> [kind |-> "bytes", bytes |-> file.bytes]]

\* Signer.__init__: the key is loaded only when a path is given
SignerInit(algorithm, file, certs) ==
    IF file.fmt = "none"
    THEN [exc |-> "none",
          signer |-> [algorithm |-> algorithm, _private_key |-> NoKey,
                      _certificate_chain |-> certs]]
    ELSE LET k == _load_private_key(algorithm, file)
         IN [exc |-> k.exc,
             signer |-> [algorithm |-> algorithm, _private_key |-> k.key,
                         _certificate_chain |-> certs]]

(***************************************************************************)
(* Signature primitives over raw bytes (core/signer.py)                    *)
(***************************************************************************)
Sha3_256(x) == <<256>> \o x
Sha3_512(x) == <<257>> \o x
DemoKey == <<100>>            \* b"demo_key"
MlDsaPrefix == <<77>>         \* b"ML-DSA-SIGNATURE:"
SlhDsaPrefix == <<83>>        \* b"SLH-DSA-SIGNATURE:"

\* (self._private_key or b"demo_key"): None and b"" are falsy
KeyOrDemo(key) == IF key.kind = "none" \/ key.bytes = <<>> THEN DemoKey ELSE key.bytes

Ok(v) == [exc |-> "none", val |-> v]
Raise(e) == [exc |-> e, val |-> <<>>]

\* hash_alg_map.get(self.algorithm, hashes.SHA256())
PssHash(algorithm) ==
    CASE algorithm = "ps384" -> 38
      [] algorithm = "ps512" -> 51
      [] OTHER -> 25

\* Signer._sign_rsa_pss: needs an RSAPrivateKey; PSS is randomised by its salt
_sign_rsa_pss(s, data, salt) ==
    IF s._private_key.kind # "rsa"
    THEN Raise("ValueError")
    ELSE Ok(<<258, PssHash(s.algorithm)>> \o s._private_key.bytes \o data \o <<salt>>)

\* Signer._sign_ml_dsa: bytes + RSAPrivateKey is a TypeError
_sign_ml_dsa(s, data) ==
    IF s._private_key.kind = "rsa"
    THEN Raise("TypeError")
    ELSE Ok(MlDsaPrefix \o Sha3_256(data \o KeyOrDemo(s._private_key)))

\* Signer._sign_slh_dsa
_sign_slh_dsa(s, data) ==
    IF s._private_key.kind = "rsa"
    THEN Raise("TypeError")
    ELSE Ok(SlhDsaPrefix \o Sha3_512(data \o KeyOrDemo(s._private_key)))

\* int.to_bytes(4, "big") and int.from_bytes(b, "big")
ToBytes4(n) == <<(n \div 16777216) % 256, (n \div 65536) % 256, (n \div 256) % 256, n % 256>>
RECURSIVE FromBytes(_)
FromBytes(b) == IF b = <<>> THEN 0 ELSE 256 * FromBytes(SubSeq(b, 1, Len(b) - 1)) + b[Len(b)]

\* [classical_length:4][classical_sig][pqc_sig]
HybridEncode(classical_sig, pqc_sig) == ToBytes4(Len(classical_sig)) \o classical_sig \o pqc_sig

\* Signer._sign_hybrid: both signatures over the same data, classical first
_sign_hybrid(s, data, salt) ==
    LET classical == _sign_rsa_pss(s, data, salt)
        pqc == _sign_ml_dsa(s, data)
    IN IF classical.exc # "none" THEN Raise(classical.exc)
       ELSE IF pqc.exc # "none" THEN Raise(pqc.exc)
       ELSE Ok(HybridEncode(classical.val, pqc.val))

\* Signer._compute_signature: dispatch on the configured tag
_compute_signature(s, data, salt) ==
    IF s.algorithm \in RSA_PSS THEN _sign_rsa_pss(s, data, salt)
    ELSE IF s.algorithm \in ML_DSA THEN _sign_ml_dsa(s, data)
    ELSE IF s.algorithm \in SLH_DSA THEN _sign_slh_dsa(s, data)
    ELSE IF s.algorithm \in HYBRID THEN _sign_hybrid(s, data, salt)
    ELSE Raise("ValueError")

\* Signer._verify_rsa_pss: the placeholder accepts everything
_verify_rsa_pss(s, data, signature) == Ok(TRUE)

\* Signer._verify_ml_dsa: recompute and compare
_verify_ml_dsa(s, data, signature) ==
    IF s._private_key.kind = "rsa"
    THEN [exc |-> "TypeError", val |-> FALSE]
    ELSE Ok(signature = MlDsaPrefix \o Sha3_256(data \o KeyOrDemo(s._private_key)))

\* Signer._verify_slh_dsa
_verify_slh_dsa(s, data, signature) ==
    IF s._private_key.kind = "rsa"
    THEN [exc |-> "TypeError", val |-> FALSE]
    ELSE Ok(signature = SlhDsaPrefix \o Sha3_512(data \o KeyOrDemo(s._private_key)))

\* Signer._verify_hybrid: split on the 4-byte length prefix, verify both halves
_verify_hybrid(s, data, signature) ==
    LET classical_len == FromBytes(SubSeq(signature, 1, Min(4, Len(signature))))
        classical_sig == SubSeq(signature, 5, Min(4 + classical_len, Len(signature)))
        pqc_sig == SubSeq(signature, 5 + classical_len, Len(signature))
        classical_valid == _verify_rsa_pss(s, data, classical_sig)
        pqc_valid == _verify_ml_dsa(s, data, pqc_sig)
    IN IF classical_valid.exc # "none" THEN classical_valid
       ELSE IF pqc_valid.exc # "none" THEN pqc_valid
       ELSE Ok(classical_valid.val /\ pqc_valid.val)

\* Signer._verify_signature: dispatch; an unhandled tag is False
_verify_signature(s, data, signature) ==
    IF s.algorithm \in RSA_PSS THEN _verify_rsa_pss(s, data, signature)
    ELSE IF s.algorithm \in ML_DSA THEN _verify_ml_dsa(s, data, signature)
    ELSE IF s.algorithm \in SLH_DSA THEN _verify_slh_dsa(s, data, signature)
    ELSE IF s.algorithm \in HYBRID THEN _verify_hybrid(s, data, signature)
    ELSE Ok(FALSE)

(***************************************************************************)
(* core/models.py: Assertion, Signature, Manifest                          *)
(*                                                                         *)
(* A string that is tested with startswith() is a sequence of tokens, the  *)
(* namespace prefixes being single tokens.  Assertion.data is a dict       *)
(* (kind "dict", v a record) or a list (kind "list", v a sequence).        *)
(* title, organization, tenant_id, claim_generator_info and the uuid of    *)
(* an assertion are left None; Signature.timestamp and tsa are left out.   *)
(***************************************************************************)
NoSignature == [present |-> FALSE, alg |-> "", certificate_chain |-> <<>>, signature_value |-> <<>>]

Signature(alg, certificate_chain, signature_value) ==
    [present |-> TRUE, alg |-> alg, certificate_chain |-> certificate_chain,
     signature_value |-> signature_value]

Assertion(label, data) == [label |-> label, data |-> data]

StartsWith(v, prefix) == Len(v) >= 1 /\ v[1] = prefix

\* a slip that prefixes every value, prefixed or not
ValidateInstanceIdAlwaysPrefixing(v) ==
    <<"xmp:iid:">> \o v

\* Manifest.validate_instance_id: re-prefix, never reject
validate_instance_id(v) ==
    IF ~(StartsWith(v, "xmp:iid:") \/ StartsWith(v, "uuid:")) THEN <<"xmp:iid:">> \o v ELSE v

\* Manifest(...): created_at = datetime.utcnow(), updated_at = None (0)
Manifest(claim_generator, format, instance_id, assertions, signature) ==
    [claim_generator |-> claim_generator, format |-> format,
     instance_id |-> validate_instance_id(instance_id),
     assertions |-> assertions, signature |-> signature,
     created_at |-> 1, updated_at |-> 0]

\* Manifest.get_assertion: the first assertion with the label, or None
HasAssertion(m, label) == \E i \in 1..Len(m.assertions) : m.assertions[i].label = label
get_assertion(m, label) ==
    m.assertions[CHOOSE i \in 1..Len(m.assertions) :
                    /\ m.assertions[i].label = label
                    /\ \A j \in 1..(i - 1) : m.assertions[j].label # label]

(***************************************************************************)
(* Manifest.to_dict and the canonical JSON of Signer                       *)
(***************************************************************************)
\* a payload holds a datetime when an action record keeps its `when`
DataHasDatetime(data) ==
    /\ data.kind = "dict"
    /\ "actions" \in DOMAIN data.v
    /\ \E i \in 1..Len(data.v.actions) : "when" \in DOMAIN data.v.actions[i]

\* Manifest.to_dict: self.dict(exclude_none=True): the fields that are not None,
\* each with the Python type of its value; datetimes stay datetime objects
to_dict(m) ==
    [assertions |-> [t |-> "list", v |-> m.assertions],
     claim_generator |-> [t |-> "str", v |-> m.claim_generator],
     created_at |-> [t |-> "datetime", v |-> m.created_at],
     format |-> [t |-> "str", v |-> m.format],
     instance_id |-> [t |-> "str", v |-> m.instance_id],
     signature |-> [t |-> (IF m.signature.present THEN "dict" ELSE "None"), v |-> m.signature],
     updated_at |-> [t |-> (IF m.updated_at = 0 THEN "None" ELSE "datetime"), v |-> m.updated_at]]

\* the keys json.dumps sees: None fields excluded, "signature" popped
DumpedKeys(d) == {k \in DOMAIN d : d[k].t # "None" /\ k # "signature"}

\* json.dumps has no default=: a datetime anywhere in the dict is a TypeError
JsonSerializable(d) ==
    /\ \A k \in DumpedKeys(d) : d[k].t # "datetime"
    /\ \A i \in 1..Len(d.assertions.v) : ~DataHasDatetime(d.assertions.v[i].data)

StrTable == <<"", "Acme/1.0", "image/jpeg", "xmp:iid:", "uuid:", "a", "b",
              "c2pa.actions", "c2pa.hash.data", "org.enterprise.workflow",
              "stds.schema-org.CreativeWork", "sha256", "h1", "h2", "c2pa.created",
              "actions", "alg", "hash", "name", "action", "label", "data",
              "assertions", "claim_generator", "format", "instance_id">>
StrCode(s) == 300 + (CHOOSE i \in 1..Len(StrTable) : StrTable[i] = s)

RECURSIVE Flatten(_)
Flatten(ss) == IF ss = <<>> THEN <<>> ELSE Head(ss) \o Flatten(Tail(ss))

\* sort_keys=True: the keys of a payload in lexicographic order
DataKeyOrder == <<"actions", "alg", "hash", "name">>
EncodeField(k, x) ==
    IF k = "actions"
    THEN <<91>> \o Flatten([i \in 1..Len(x) |-> <<123, StrCode("action"), StrCode(x[i].action), 125>>]) \o <<93>>
    ELSE <<StrCode(x)>>
EncodeData(data) ==
    IF data.kind = "list"
    THEN <<91>> \o [i \in 1..Len(data.v) |-> StrCode(data.v[i])] \o <<93>>
    ELSE <<123>> \o Flatten([i \in 1..Len(DataKeyOrder) |->
                    IF DataKeyOrder[i] \in DOMAIN data.v
                    THEN <<StrCode(DataKeyOrder[i])>> \o EncodeField(DataKeyOrder[i], data.v[DataKeyOrder[i]])
                    ELSE <<>>]) \o <<125>>
EncodeAssertion(a) ==
    <<123, StrCode("data")>> \o EncodeData(a.data) \o <<StrCode("label"), StrCode(a.label), 125>>

\* json.dumps(d, sort_keys=True, separators=(",", ":")).encode("utf-8")
JsonDumps(d) ==
    IF ~JsonSerializable(d)
    THEN Raise("TypeError")
    ELSE Ok(<<123, StrCode("assertions"), 91>>
            \o Flatten([i \in 1..Len(d.assertions.v) |-> EncodeAssertion(d.assertions.v[i])])
            \o <<93, StrCode("claim_generator"), StrCode(d.claim_generator.v),
                 StrCode("format"), StrCode(d.format.v), StrCode("instance_id")>>
            \o [i \in 1..Len(d.instance_id.v) |-> StrCode(d.instance_id.v[i])]
            \o <<125>>)

\* Signer._prepare_manifest_for_signing
_prepare_manifest_for_signing(m) == JsonDumps(to_dict(m))

(***************************************************************************)
(* Signer.sign and Signer.verify                                           *)
(***************************************************************************)
\* Signer.sign: canonical bytes, signature, then manifest.signature is set;
\* an exception of either step leaves the manifest as it was
SignerSign(s, m, salt) ==
    LET manifest_data == _prepare_manifest_for_signing(m)
        signature_value == _compute_signature(s, manifest_data.val, salt)
    IN IF manifest_data.exc # "none" THEN [exc |-> manifest_data.exc, manifest |-> m]
       ELSE IF signature_value.exc # "none" THEN [exc |-> signature_value.exc, manifest |-> m]
       ELSE [exc |-> "none",
             manifest |-> [m EXCEPT !.signature =
                              Signature(s.algorithm, s._certificate_chain, signature_value.val)]]

\* Signer.verify: False without a signature; the canonical bytes are prepared
\* outside the try block, only _verify_signature is inside it
SignerVerify(s, m) ==
    IF ~m.signature.present THEN Ok(FALSE)
    ELSE LET manifest_data == _prepare_manifest_for_signing(m)
             r == _verify_signature(s, manifest_data.val, m.signature.signature_value)
         IN IF manifest_data.exc # "none" THEN [exc |-> manifest_data.exc, val |-> FALSE]
            ELSE IF r.exc # "none" THEN Ok(FALSE)
            ELSE r

(***************************************************************************)
(* verification/validator.py: ManifestValidator                            *)
(*                                                                         *)
(* A stage takes the issue and warning lists built so far and returns      *)
(* them with what it appended, next to its boolean.                        *)
(***************************************************************************)
ValidationLevel == {"invalid", "basic", "standard", "enterprise", "high_assurance"}

ValidationIssue(severity, code) == [severity |-> severity, code |-> code]
AssertionValidation(label, verified, message) ==
    [label |-> label, verified |-> verified, message |-> message]

\* ManifestValidator._validate_structure
_validate_structure(m, issues, warnings) ==
    LET i1 == IF m.claim_generator = ""
              THEN Append(issues, ValidationIssue("error", "MISSING_CLAIM_GENERATOR"))
              ELSE issues
        i2 == IF m.format = ""
              THEN Append(i1, ValidationIssue("error", "MISSING_FORMAT"))
              ELSE i1
        i3 == IF m.instance_id = <<>>
              THEN Append(i2, ValidationIssue("error", "MISSING_INSTANCE_ID"))
              ELSE i2
        w1 == IF /\ m.instance_id # <<>>
                 /\ ~(StartsWith(m.instance_id, "xmp:iid:") \/ StartsWith(m.instance_id, "uuid:"))
              THEN Append(warnings, ValidationIssue("warning", "INVALID_INSTANCE_ID_FORMAT"))
              ELSE warnings
    IN [ok |-> ~(m.claim_generator = "" \/ m.format = "" \/ m.instance_id = <<>>),
        issues |-> i3, warnings |-> w1]

\* ManifestValidator._validate_actions_assertion
_validate_actions_assertion(assertion) ==
    IF assertion.data.kind # "dict"
    THEN AssertionValidation("c2pa.actions", FALSE, "Invalid actions assertion format")
    ELSE IF ("actions" \notin DOMAIN assertion.data.v) \/ assertion.data.v.actions = <<>>
    THEN AssertionValidation("c2pa.actions", FALSE, "Actions assertion has no actions")
    ELSE AssertionValidation("c2pa.actions", TRUE, "Actions assertion valid")

\* ManifestValidator._validate_hash_assertion
_validate_hash_assertion(assertion) ==
    IF assertion.data.kind # "dict"
    THEN AssertionValidation("c2pa.hash.data", FALSE, "Invalid hash assertion format")
    ELSE IF "name" \notin DOMAIN assertion.data.v \/ "alg" \notin DOMAIN assertion.data.v
    THEN AssertionValidation("c2pa.hash.data", FALSE, "Hash assertion missing required fields")
    ELSE AssertionValidation("c2pa.hash.data", TRUE, "Hash assertion valid")

\* the loop body of _validate_assertions for one assertion
ValidateOneAssertion(assertion) ==
    IF assertion.label = "c2pa.actions" THEN _validate_actions_assertion(assertion)
    ELSE IF assertion.label = "c2pa.hash.data" THEN _validate_hash_assertion(assertion)
    ELSE AssertionValidation(assertion.label, TRUE, "Assertion present")

\* ManifestValidator._validate_assertions: an empty list returns early
_validate_assertions(m, assertion_validations, issues, warnings) ==
    IF m.assertions = <<>>
    THEN [ok |-> TRUE, assertion_validations |-> assertion_validations, issues |-> issues,
          warnings |-> Append(warnings, ValidationIssue("warning", "NO_ASSERTIONS"))]
    ELSE LET has_actions == HasAssertion(m, "c2pa.actions")
             has_hash == HasAssertion(m, "c2pa.hash.data")
             av == assertion_validations \o
                      [i \in 1..Len(m.assertions) |-> ValidateOneAssertion(m.assertions[i])]
             w == IF ~has_actions
                  THEN Append(warnings, ValidationIssue("warning", "MISSING_ACTIONS_ASSERTION"))
                  ELSE warnings
         IN IF ~has_hash
            THEN [ok |-> FALSE, assertion_validations |-> av,
                  issues |-> Append(issues, ValidationIssue("error", "MISSING_HASH_ASSERTION")),
                  warnings |-> w]
            ELSE [ok |-> TRUE, assertion_validations |-> av, issues |-> issues, warnings |-> w]

\* ManifestValidator._validate_signature, from the return of signer.verify on:
\* what the stage makes of the value verify returned or the exception it raised
SignatureVerdict(valid, issues, warnings) ==
    IF valid.exc # "none"
    THEN [ok |-> FALSE, warnings |-> warnings,
          issues |-> Append(issues, ValidationIssue("error", "SIGNATURE_VERIFICATION_ERROR"))]
    ELSE IF ~valid.val
    THEN [ok |-> FALSE, warnings |-> warnings,
          issues |-> Append(issues, ValidationIssue("error", "INVALID_SIGNATURE"))]
    ELSE [ok |-> TRUE, issues |-> issues, warnings |-> warnings]

\* ManifestValidator._validate_signature: a fresh Signer of the signature's
\* tag, no key loaded; whatever verify raises becomes an error issue
_validate_signature(m, issues, warnings) ==
    IF ~m.signature.present
    THEN [ok |-> FALSE, issues |-> issues, warnings |-> warnings]
    ELSE LET s == SignerInit(m.signature.alg, NoFile, <<>>).signer
         IN SignatureVerdict(SignerVerify(s, m), issues, warnings)

\* a slip that records an untrusted certificate as an error issue
ValidateCertificateTrustAsError(m, trusted, issues, warnings) ==
    IF ~m.signature.present \/ m.signature.certificate_chain = <<>>
    THEN [ok |-> FALSE, issues |-> issues,
          warnings |-> Append(warnings, ValidationIssue("warning", "NO_CERTIFICATE_CHAIN"))]
    ELSE IF trusted = {}
    THEN [ok |-> FALSE, issues |-> issues,
          warnings |-> Append(warnings, ValidationIssue("warning", "NO_TRUSTED_CERTS"))]
    ELSE IF \E c \in trusted :
               \E i \in 1..Len(m.signature.certificate_chain) : m.signature.certificate_chain[i] = c
    THEN [ok |-> TRUE, issues |-> issues, warnings |-> warnings]
    ELSE [ok |-> FALSE, warnings |-> warnings,
          issues |-> Append(issues, ValidationIssue("error", "UNTRUSTED_CERTIFICATE"))]

\* ManifestValidator._validate_certificate_trust: membership in a flat set
_validate_certificate_trust(m, trusted, issues, warnings) ==
    IF ~m.signature.present \/ m.signature.certificate_chain = <<>>
    THEN [ok |-> FALSE, issues |-> issues,
          warnings |-> Append(warnings, ValidationIssue("warning", "NO_CERTIFICATE_CHAIN"))]
    ELSE IF trusted = {}
    THEN [ok |-> FALSE, issues |-> issues,
          warnings |-> Append(warnings, ValidationIssue("warning", "NO_TRUSTED_CERTS"))]
    ELSE IF \E c \in trusted :
               \E i \in 1..Len(m.signature.certificate_chain) : m.signature.certificate_chain[i] = c
    THEN [ok |-> TRUE, issues |-> issues, warnings |-> warnings]
    ELSE [ok |-> FALSE, issues |-> issues,
          warnings |-> Append(warnings, ValidationIssue("warning", "UNTRUSTED_CERTIFICATE"))]

\* ManifestValidator._validate_chain_of_custody: presence of c2pa.actions
_validate_chain_of_custody(m, issues, warnings) ==
    [ok |-> HasAssertion(m, "c2pa.actions"), issues |-> issues, warnings |-> warnings]

\* a slip that forgets the issue count
DetermineTrustLevelIgnoringIssues(signature_valid, certificate_trusted, chain_complete, issue_count) ==
    IF ~signature_valid THEN "invalid"
    ELSE IF certificate_trusted /\ chain_complete THEN "enterprise"
    ELSE IF certificate_trusted THEN "standard"
    ELSE "basic"

\* a slip that has no STANDARD branch: a trusted certificate without custody
\* falls through to INVALID
DetermineTrustLevelWithoutStandard(signature_valid, certificate_trusted, chain_complete, issue_count) ==
    IF ~signature_valid \/ issue_count > 0 THEN "invalid"
    ELSE IF certificate_trusted /\ chain_complete THEN "enterprise"
    ELSE IF certificate_trusted THEN "invalid"
    ELSE "basic"

\* ManifestValidator._determine_trust_level
_determine_trust_level(signature_valid, certificate_trusted, chain_complete, issue_count) ==
    IF ~signature_valid \/ issue_count > 0 THEN "invalid"
    ELSE IF certificate_trusted /\ chain_complete THEN "enterprise"
    ELSE IF certificate_trusted THEN "standard"
    ELSE IF signature_valid THEN "basic"
    ELSE "invalid"

\* a slip that lets strict mode forget the chain of custody
OverallValidStrictWithoutCustody(structure_valid, assertions_valid, signature_valid, certificate_trusted, chain_complete, strict) ==
    LET valid == structure_valid /\ assertions_valid /\ signature_valid
    IN IF strict THEN valid /\ certificate_trusted ELSE valid

\* ManifestValidator.validate, "Overall validity"
OverallValid(structure_valid, assertions_valid, signature_valid, certificate_trusted, chain_complete, strict) ==
    LET valid == structure_valid /\ assertions_valid /\ signature_valid
    IN IF strict THEN valid /\ certificate_trusted /\ chain_complete ELSE valid

\* a slip that treats a missing signature as a skipped stage
MissingSignatureSkipped(issues, warnings) ==
    [ok |-> FALSE, issues |-> issues, warnings |-> warnings]

\* ManifestValidator.validate, the else branch of "if manifest.signature"
MissingSignature(issues, warnings) ==
    [ok |-> FALSE, warnings |-> warnings,
     issues |-> Append(issues, ValidationIssue("error", "NO_SIGNATURE"))]

\* ManifestValidator.validate after the signature stage: certificate trust
\* (for a signed manifest only), chain of custody, trust level, validity and the
\* result; st, av and sg are what the first three stages returned.
\* (organizational_compliance, verified_at and manifest_id are left out.)
ValidateAfterSignature(m, trusted, strict, st, av, sg) ==
    LET ct == IF m.signature.present
              THEN _validate_certificate_trust(m, trusted, sg.issues, sg.warnings)
              ELSE [ok |-> FALSE, issues |-> sg.issues, warnings |-> sg.warnings]
        cc == _validate_chain_of_custody(m, ct.issues, ct.warnings)
    IN [valid |-> OverallValid(st.ok, av.ok, sg.ok, ct.ok, cc.ok, strict),
        trust_level |-> _determine_trust_level(sg.ok, ct.ok, cc.ok, Len(cc.issues)),
        signature_valid |-> sg.ok,
        certificate_trusted |-> ct.ok,
        chain_complete |-> cc.ok,
        assertions_verified |-> av.assertion_validations,
        issues |-> cc.issues,
        warnings |-> cc.warnings,
        structure_valid |-> st.ok,
        assertions_valid |-> av.ok]

\* ManifestValidator.validate: every stage in turn on the growing lists; the
\* locals structure_valid and assertions_valid are kept with the result.
validate(m, trusted, strict) ==
    LET st == _validate_structure(m, <<>>, <<>>)
        av == _validate_assertions(m, <<>>, st.issues, st.warnings)
        sg == IF m.signature.present
              THEN _validate_signature(m, av.issues, av.warnings)
              ELSE MissingSignature(av.issues, av.warnings)
    IN ValidateAfterSignature(m, trusted, strict, st, av, sg)

(***************************************************************************)
(* verification/policy_engine.py: PolicyEngine                             *)
(*                                                                         *)
(* A Python value a rule parameter or a manifest field can hold is a       *)
(* record [t, s, n]: its type and its content, a string or a number; None  *)
(* is type "None".  A check                                                *)
(* returns [exc, val]: the violations it returns or the exception it       *)
(* raises.  A custom function is what it does when called: it returns      *)
(* true, returns false or raises.                                          *)
(***************************************************************************)
PolicyRuleType ==
    {"required_assertion", "forbidden_assertion", "required_field", "value_constraint",
     "classification_constraint", "custom_function"}
PolicyRuleSeverity == {"error", "warning", "info"}

PyNone == [t |-> "None", s |-> "", n |-> 0]
PyStr(x) == [t |-> "str", s |-> x, n |-> 0]
PyInt(x) == [t |-> "int", s |-> "", n |-> x]
PyDatetime(x) == [t |-> "datetime", s |-> "", n |-> x]

\* PolicyRule: the parameters a rule does not set are None ("" / <<>> / PyNone)
PolicyRule(name, rule_type, severity, enabled, assertion_label, field_path, allowed_values, min_value, max_value, classification_levels, custom_function) ==
    [name |-> name, rule_type |-> rule_type, severity |-> severity, enabled |-> enabled,
     assertion_label |-> assertion_label, field_path |-> field_path,
     allowed_values |-> allowed_values, min_value |-> min_value, max_value |-> max_value,
     classification_levels |-> classification_levels, custom_function |-> custom_function]

PolicyViolation(rule_name, severity, message) ==
    [rule_name |-> rule_name, severity |-> severity, message |-> message]

OrganizationalPolicy(name, rules) == [name |-> name, rules |-> rules]

\* PolicyEngine._initialize_default_policies
marketing_policy ==
    OrganizationalPolicy("marketing_content",
        <<PolicyRule("require_creative_work", "required_assertion", "error", TRUE,
                     "stds.schema-org.CreativeWork", "", <<>>, PyNone, PyNone, <<>>, ""),
          PolicyRule("require_workflow", "required_assertion", "error", TRUE,
                     "org.enterprise.workflow", "", <<>>, PyNone, PyNone, <<>>, ""),
          PolicyRule("public_classification", "classification_constraint", "error", TRUE,
                     "", "", <<>>, PyNone, PyNone, <<"public">>, "")>>)
legal_policy ==
    OrganizationalPolicy("legal_documents",
        <<PolicyRule("require_hash", "required_assertion", "error", TRUE,
                     "c2pa.hash.data", "", <<>>, PyNone, PyNone, <<>>, ""),
          PolicyRule("require_actions", "required_assertion", "error", TRUE,
                     "c2pa.actions", "", <<>>, PyNone, PyNone, <<>>, ""),
          PolicyRule("confidential_or_higher", "classification_constraint", "error", TRUE,
                     "", "", <<>>, PyNone, PyNone, <<"confidential", "secret", "top_secret">>, "")>>)

\* dict[key] = value
DictPut(d, key, value) == [k \in DOMAIN d \cup {key} |-> IF k = key THEN value ELSE d[k]]

\* PolicyEngine.__init__
PolicyEngineInit ==
    [policies |-> DictPut(DictPut(<<>>, "marketing_content", marketing_policy),
                          "legal_documents", legal_policy),
     custom_functions |-> <<>>]

\* PolicyEngine.add_policy
add_policy(e, policy) == [e EXCEPT !.policies = DictPut(@, policy.name, policy)]

\* PolicyEngine.register_custom_function
register_custom_function(e, name, function) ==
    [e EXCEPT !.custom_functions = DictPut(@, name, function)]

\* getattr(manifest, field_path, None): a field that is None or an attribute
\* the Manifest does not have is None (title, organization and tenant_id are
\* left None); updated_at is None until an assertion has been added
getattr(m, field_path) ==
    CASE field_path = "claim_generator" -> PyStr(m.claim_generator)
      [] field_path = "format" -> PyStr(m.format)
      [] field_path = "created_at" -> PyDatetime(m.created_at)
      [] field_path = "updated_at" ->
            IF m.updated_at = 0 THEN PyNone ELSE PyDatetime(m.updated_at)
      [] OTHER -> PyNone

\* value in values: == of two Python values of different types is False
PyIn(value, values) ==
    \E i \in 1..Len(values) : values[i] = value

\* str < str is lexicographic on code points
PyStrOrder == <<"", "Acme/1.0", "application/pdf", "image/jpeg", "video/mp4">>
StrRank(x) == CHOOSE i \in 1..Len(PyStrOrder) : PyStrOrder[i] = x

\* a < b: values of one ordered type compare, anything else is a TypeError
PyLess(a, b) ==
    IF a.t # b.t \/ a.t \notin {"str", "int", "datetime"}
    THEN [exc |-> "TypeError", val |-> FALSE]
    ELSE IF a.t = "str" THEN Ok(StrRank(a.s) < StrRank(b.s))
    ELSE Ok(a.n < b.n)

\* PolicyEngine._check_required_assertion
_check_required_assertion(m, rule) ==
    IF rule.assertion_label = "" THEN Ok(<<>>)
    ELSE IF ~HasAssertion(m, rule.assertion_label)
    THEN Ok(<<PolicyViolation(rule.name, rule.severity, "Required assertion not found")>>)
    ELSE Ok(<<>>)

\* PolicyEngine._check_forbidden_assertion
_check_forbidden_assertion(m, rule) ==
    IF rule.assertion_label = "" THEN Ok(<<>>)
    ELSE IF HasAssertion(m, rule.assertion_label)
    THEN Ok(<<PolicyViolation(rule.name, rule.severity, "Forbidden assertion found")>>)
    ELSE Ok(<<>>)

\* PolicyEngine._check_required_field
_check_required_field(m, rule) ==
    IF rule.field_path = "" THEN Ok(<<>>)
    ELSE IF getattr(m, rule.field_path).t = "None"
    THEN Ok(<<PolicyViolation(rule.name, rule.severity, "Required field not found")>>)
    ELSE Ok(<<>>)

\* a slip that leaves out the maximum bound
CheckValueConstraintWithoutMax(m, rule) ==
    LET value == getattr(m, rule.field_path)
        below == IF rule.min_value.t # "None" THEN PyLess(value, rule.min_value) ELSE Ok(FALSE)
    IN IF rule.field_path = "" THEN Ok(<<>>)
       ELSE IF value.t = "None" THEN Ok(<<>>)
       ELSE IF below.exc # "none" THEN Raise(below.exc)
       ELSE Ok((IF rule.allowed_values # <<>> /\ ~PyIn(value, rule.allowed_values)
                THEN <<PolicyViolation(rule.name, rule.severity, "has invalid value")>>
                ELSE <<>>)
               \o (IF below.val
                   THEN <<PolicyViolation(rule.name, rule.severity, "below minimum")>>
                   ELSE <<>>))

\* PolicyEngine._check_value_constraint: an absent field is skipped; the
\* comparisons with the bounds are not guarded, so what they raise leaves
\* the method
_check_value_constraint(m, rule) ==
    LET value == getattr(m, rule.field_path)
        below == IF rule.min_value.t # "None" THEN PyLess(value, rule.min_value) ELSE Ok(FALSE)
        above == IF rule.max_value.t # "None" THEN PyLess(rule.max_value, value) ELSE Ok(FALSE)
    IN IF rule.field_path = "" THEN Ok(<<>>)
       ELSE IF value.t = "None" THEN Ok(<<>>)
       ELSE IF below.exc # "none" THEN Raise(below.exc)
       ELSE IF above.exc # "none" THEN Raise(above.exc)
       ELSE Ok((IF rule.allowed_values # <<>> /\ ~PyIn(value, rule.allowed_values)
                THEN <<PolicyViolation(rule.name, rule.severity, "has invalid value")>>
                ELSE <<>>)
               \o (IF below.val
                   THEN <<PolicyViolation(rule.name, rule.severity, "below minimum")>>
                   ELSE <<>>)
               \o (IF above.val
                   THEN <<PolicyViolation(rule.name, rule.severity, "above maximum")>>
                   ELSE <<>>))

\* workflow.data.get("classification") of a dict payload; None is ""
DataGetClassification(data) ==
    IF "classification" \in DOMAIN data.v THEN data.v.classification ELSE ""

\* a slip that lets a manifest without a workflow assertion pass
CheckClassificationIgnoringAbsent(m, rule) ==
    IF ~HasAssertion(m, "org.enterprise.workflow") THEN Ok(<<>>)
    ELSE IF get_assertion(m, "org.enterprise.workflow").data.kind # "dict"
    THEN Ok(<<PolicyViolation(rule.name, rule.severity, "No workflow assertion to check classification")>>)
    ELSE LET classification ==
                DataGetClassification(get_assertion(m, "org.enterprise.workflow").data)
         IN IF classification = ""
            THEN Ok(<<PolicyViolation(rule.name, rule.severity, "No classification specified")>>)
            ELSE IF /\ rule.classification_levels # <<>>
                    /\ \A i \in 1..Len(rule.classification_levels) :
                          rule.classification_levels[i] # classification
            THEN Ok(<<PolicyViolation(rule.name, rule.severity, "Invalid classification level")>>)
            ELSE Ok(<<>>)

\* PolicyEngine._check_classification_constraint: the first workflow assertion
_check_classification_constraint(m, rule) ==
    IF ~HasAssertion(m, "org.enterprise.workflow")
    THEN Ok(<<PolicyViolation(rule.name, rule.severity, "No workflow assertion to check classification")>>)
    ELSE IF get_assertion(m, "org.enterprise.workflow").data.kind # "dict"
    THEN Ok(<<PolicyViolation(rule.name, rule.severity, "No workflow assertion to check classification")>>)
    ELSE LET classification ==
                DataGetClassification(get_assertion(m, "org.enterprise.workflow").data)
         IN IF classification = ""
            THEN Ok(<<PolicyViolation(rule.name, rule.severity, "No classification specified")>>)
            ELSE IF /\ rule.classification_levels # <<>>
                    /\ \A i \in 1..Len(rule.classification_levels) :
                          rule.classification_levels[i] # classification
            THEN Ok(<<PolicyViolation(rule.name, rule.severity, "Invalid classification level")>>)
            ELSE Ok(<<>>)

\* a slip that reports a raising predicate at the rule's declared severity
CheckCustomFunctionDeclaredSeverity(e, m, rule) ==
    IF rule.custom_function = "" THEN Ok(<<>>)
    ELSE IF rule.custom_function \notin DOMAIN e.custom_functions
    THEN Ok(<<PolicyViolation(rule.name, "error", "Custom function not found")>>)
    ELSE IF e.custom_functions[rule.custom_function] = "raise"
    THEN Ok(<<PolicyViolation(rule.name, rule.severity, "Custom validation error")>>)
    ELSE IF e.custom_functions[rule.custom_function] = "false"
    THEN Ok(<<PolicyViolation(rule.name, rule.severity, "Custom validation failed")>>)
    ELSE Ok(<<>>)

\* PolicyEngine._check_custom_function: the call is inside try/except
_check_custom_function(e, m, rule) ==
    IF rule.custom_function = "" THEN Ok(<<>>)
    ELSE IF rule.custom_function \notin DOMAIN e.custom_functions
    THEN Ok(<<PolicyViolation(rule.name, "error", "Custom function not found")>>)
    ELSE IF e.custom_functions[rule.custom_function] = "raise"
    THEN Ok(<<PolicyViolation(rule.name, "error", "Custom validation error")>>)
    ELSE IF e.custom_functions[rule.custom_function] = "false"
    THEN Ok(<<PolicyViolation(rule.name, rule.severity, "Custom validation failed")>>)
    ELSE Ok(<<>>)

\* PolicyEngine._evaluate_rule: dispatch on the rule type
_evaluate_rule(e, m, rule) ==
    IF rule.rule_type = "required_assertion" THEN _check_required_assertion(m, rule)
    ELSE IF rule.rule_type = "forbidden_assertion" THEN _check_forbidden_assertion(m, rule)
    ELSE IF rule.rule_type = "required_field" THEN _check_required_field(m, rule)
    ELSE IF rule.rule_type = "value_constraint" THEN _check_value_constraint(m, rule)
    ELSE IF rule.rule_type = "classification_constraint"
    THEN _check_classification_constraint(m, rule)
    ELSE IF rule.rule_type = "custom_function" THEN _check_custom_function(e, m, rule)
    ELSE Ok(<<>>)

\* the loop of evaluate(): disabled rules are skipped, the violations of the
\* others are collected in rule order; a rule that raises ends the loop
RECURSIVE EvaluateRules(_, _, _)
EvaluateRules(e, m, rules) ==
    IF rules = <<>> THEN Ok(<<>>)
    ELSE IF ~Head(rules).enabled THEN EvaluateRules(e, m, Tail(rules))
    ELSE LET rule_violations == _evaluate_rule(e, m, Head(rules))
             rest == EvaluateRules(e, m, Tail(rules))
         IN IF rule_violations.exc # "none" THEN Raise(rule_violations.exc)
            ELSE IF rest.exc # "none" THEN Raise(rest.exc)
            ELSE Ok(rule_violations.val \o rest.val)

\* a slip that lets any violation fail the policy
EvaluateFailingOnAnyViolation(e, m, policy_name) ==
    IF policy_name \notin DOMAIN e.policies
    THEN [exc |-> "ValueError", passed |-> FALSE, violations |-> <<>>]
    ELSE LET violations == EvaluateRules(e, m, e.policies[policy_name].rules)
         IN IF violations.exc # "none"
            THEN [exc |-> violations.exc, passed |-> FALSE, violations |-> <<>>]
            ELSE [exc |-> "none", passed |-> violations.val = <<>>,
                  violations |-> violations.val]

\* PolicyEngine.evaluate: ValueError for an unknown policy name; passed iff
\* no violation has severity ERROR.  (manifest_id and evaluated_at are left out.)
evaluate(e, m, policy_name) ==
    IF policy_name \notin DOMAIN e.policies
    THEN [exc |-> "ValueError", passed |-> FALSE, violations |-> <<>>]
    ELSE LET violations == EvaluateRules(e, m, e.policies[policy_name].rules)
         IN IF violations.exc # "none"
            THEN [exc |-> violations.exc, passed |-> FALSE, violations |-> <<>>]
            ELSE [exc |-> "none",
                  passed |-> ~\E i \in 1..Len(violations.val) :
                                 violations.val[i].severity = "error",
                  violations |-> violations.val]

(***************************************************************************)
(* Workflow assertions (core/assertion_builder.py, core/manifest_creator.py)*)
(***************************************************************************)
\* an optional argument: <<>> is None, <<x>> is the value x
None == <<>>
Some(x) == <<x>>

\* WorkflowStep(...).dict(exclude_none=True); user_name, timestamp and comments
\* are carried along unread
WorkflowStep(role, user_id, status) == [role |-> role, user_id |-> user_id, status |-> status]

\* ComplianceCheck().dict(exclude_none=True): legal_review is None and left out
ComplianceCheck ==
    [pdpa_approved |-> FALSE, trademark_cleared |-> FALSE,
     export_control_passed |-> TRUE, classification_verified |-> TRUE]

\* AssertionBuilder.build_workflow_assertion, without department and project
build_workflow_assertion(workflow_id, creator_id, classification) ==
    Assertion("org.enterprise.workflow",
              [kind |-> "dict",
               v |-> [workflow_id |-> workflow_id,
                      approval_chain |-> <<WorkflowStep("creator", creator_id, "created")>>,
                      compliance_check |-> ComplianceCheck,
                      classification |-> classification]])

\* a slip that puts the new step in front of the chain
AddApprovalToWorkflowInFront(workflow_assertion, approver_id, role, status) ==
    IF workflow_assertion.label # "org.enterprise.workflow"
    THEN [exc |-> "ValueError", assertion |-> workflow_assertion]
    ELSE [exc |-> "none",
          assertion |-> [workflow_assertion EXCEPT !.data.v.approval_chain =
                            <<WorkflowStep(role, approver_id, status)>> \o @]]

\* AssertionBuilder.add_approval_to_workflow: the label check, then
\* data["approval_chain"].append(step) on the payload itself
add_approval_to_workflow(workflow_assertion, approver_id, role, status) ==
    IF workflow_assertion.label # "org.enterprise.workflow"
    THEN [exc |-> "ValueError", assertion |-> workflow_assertion]
    ELSE IF workflow_assertion.data.kind # "dict"
    THEN [exc |-> "TypeError", assertion |-> workflow_assertion]
    ELSE IF "approval_chain" \notin DOMAIN workflow_assertion.data.v
    THEN [exc |-> "KeyError", assertion |-> workflow_assertion]
    ELSE [exc |-> "none",
          assertion |-> [workflow_assertion EXCEPT !.data.v.approval_chain =
                            Append(@, WorkflowStep(role, approver_id, status))]]

\* a slip that leaves the label check out and falls back on an empty record
UpdateComplianceCheckUnchecked(workflow_assertion, pdpa_approved, trademark_cleared, legal_review) ==
    LET compliance == IF "compliance_check" \in DOMAIN workflow_assertion.data.v
                      THEN workflow_assertion.data.v.compliance_check
                      ELSE <<>>
        c1 == IF pdpa_approved # None
              THEN DictPut(compliance, "pdpa_approved", pdpa_approved[1])
              ELSE compliance
        c2 == IF trademark_cleared # None
              THEN DictPut(c1, "trademark_cleared", trademark_cleared[1]) ELSE c1
        c3 == IF legal_review # None
              THEN DictPut(c2, "legal_review", legal_review[1]) ELSE c2
    IN [exc |-> "none",
        assertion |-> [workflow_assertion EXCEPT
                         !.data.v = DictPut(@, "compliance_check", c3)]]

\* AssertionBuilder.update_compliance_check: the label check, then only the
\* arguments that are not None are written into data["compliance_check"]
update_compliance_check(workflow_assertion, pdpa_approved, trademark_cleared, legal_review) ==
    IF workflow_assertion.label # "org.enterprise.workflow"
    THEN [exc |-> "ValueError", assertion |-> workflow_assertion]
    ELSE IF workflow_assertion.data.kind # "dict"
    THEN [exc |-> "AttributeError", assertion |-> workflow_assertion]
    ELSE LET compliance == IF "compliance_check" \in DOMAIN workflow_assertion.data.v
                           THEN workflow_assertion.data.v.compliance_check
                           ELSE <<>>
             c1 == IF pdpa_approved # None
                   THEN DictPut(compliance, "pdpa_approved", pdpa_approved[1])
                   ELSE compliance
             c2 == IF trademark_cleared # None
                   THEN DictPut(c1, "trademark_cleared", trademark_cleared[1]) ELSE c1
             c3 == IF legal_review # None
                   THEN DictPut(c2, "legal_review", legal_review[1]) ELSE c2
         IN [exc |-> "none",
             assertion |-> [workflow_assertion EXCEPT
                              !.data.v = DictPut(@, "compliance_check", c3)]]

\* position of the assertion Manifest.get_assertion(label) returns, 0 for None
FirstIndex(m, label) ==
    LET found == {i \in 1..Len(m.assertions) : m.assertions[i].label = label}
    IN IF found = {} THEN 0 ELSE CHOOSE i \in found : \A j \in found : i <= j

\* ManifestCreator.add_approval: the first workflow assertion of the manifest
\* is handed to the builder, then updated_at = now
add_approval(m, approver_id, role, status) ==
    LET i == FirstIndex(m, "org.enterprise.workflow")
    IN IF i = 0
       THEN [exc |-> "ValueError", manifest |-> m]
       ELSE LET r == add_approval_to_workflow(m.assertions[i], approver_id, role, status)
            IN IF r.exc # "none"
               THEN [exc |-> r.exc, manifest |-> m]
               ELSE [exc |-> "none",
                     manifest |-> [m EXCEPT !.assertions[i] = r.assertion, !.updated_at = 1]]

\* ManifestCreator.update_compliance
update_compliance(m, pdpa_approved, trademark_cleared, legal_review) ==
    LET i == FirstIndex(m, "org.enterprise.workflow")
    IN IF i = 0
       THEN [exc |-> "ValueError", manifest |-> m]
       ELSE LET r == update_compliance_check(m.assertions[i], pdpa_approved,
                                             trademark_cleared, legal_review)
            IN IF r.exc # "none"
               THEN [exc |-> r.exc, manifest |-> m]
               ELSE [exc |-> "none",
                     manifest |-> [m EXCEPT !.assertions[i] = r.assertion, !.updated_at = 1]]

(***************************************************************************)
(* Workflow engine (enterprise/workflow.py)                                *)
(***************************************************************************)
WorkflowState ==
    {"draft", "submitted", "in_review", "approved", "rejected", "published", "archived"}
WorkflowAction ==
    {"submit", "review", "approve", "reject", "publish", "archive", "recall"}

WorkflowTransition(from_state, to_state, action, required_role) ==
    [from_state |-> from_state, to_state |-> to_state, action |-> action,
     required_role |-> required_role]

\* a slip that records the two states of a history entry in each other's place
WorkflowHistorySwapped(user_id, from_state, to_state, action) ==
    [user_id |-> user_id, from_state |-> to_state, to_state |-> from_state, action |-> action]

\* a history entry; its timestamp, user_name and comments play no part in any decision
WorkflowHistory(user_id, from_state, to_state, action) ==
    [user_id |-> user_id, from_state |-> from_state, to_state |-> to_state, action |-> action]

\* WorkflowEngine._initialize_transitions: the table, in the order it is built
_initialize_transitions ==
    <<WorkflowTransition("draft", "submitted", "submit", "creator"),
      WorkflowTransition("submitted", "in_review", "review", "reviewer"),
      WorkflowTransition("in_review", "approved", "approve", "approver"),
      WorkflowTransition("in_review", "rejected", "reject", "reviewer"),
      WorkflowTransition("approved", "published", "publish", "approver"),
      WorkflowTransition("published", "archived", "archive", "manager"),
      WorkflowTransition("rejected", "draft", "recall", "creator")>>

\* WorkflowEngine.__init__: no workflow yet
WorkflowEngineInit == <<>>

\* WorkflowEngine.create_workflow: a fresh instance in DRAFT with an empty history is
\* stored under the manifest's instance_id, whatever was stored there before.
\* Timestamps are counted in transitions of the instance: 0 at creation.
create_workflow(ws, m, user_id) ==
    LET workflow == [workflow_id |-> m.instance_id, manifest_id |-> m.instance_id,
                     current_state |-> "draft", created_by |-> user_id,
                     created_at |-> 0, updated_at |-> 0, history |-> <<>>]
    IN [exc |-> "none", val |-> workflow, workflows |-> DictPut(ws, workflow.workflow_id, workflow)]

\* a slip that looks the action up without regard to the state it leaves
MatchingTransitionsByAction(from_state, action) ==
    SelectSeq(_initialize_transitions, LAMBDA t : t.action = action)

\* the entries of the table that leave from_state by action
MatchingTransitions(from_state, action) ==
    SelectSeq(_initialize_transitions,
              LAMBDA t : t.from_state = from_state /\ t.action = action)

\* WorkflowEngine.transition
transition(ws, workflow_id, action, user_id, user_role) ==
    IF workflow_id \notin DOMAIN ws
    THEN [exc |-> "ValueError", val |-> <<>>, workflows |-> ws]
    ELSE LET workflow == ws[workflow_id]
             matching == MatchingTransitions(workflow.current_state, action)
         IN IF matching = <<>>
            THEN [exc |-> "ValueError", val |-> <<>>, workflows |-> ws]
            ELSE LET valid_transition == matching[1]
                 IN IF /\ user_role # valid_transition.required_role
                       /\ user_role # "administrator"
                    THEN [exc |-> "PermissionError", val |-> <<>>, workflows |-> ws]
                    ELSE LET updated ==
                                 [workflow EXCEPT
                                    !.history = Append(@, WorkflowHistory(user_id,
                                                  workflow.current_state,
                                                  valid_transition.to_state, action)),
                                    !.current_state = valid_transition.to_state,
                                    !.updated_at = Len(workflow.history) + 1]
                         IN [exc |-> "none", val |-> <<updated.current_state>>,
                             workflows |-> [ws EXCEPT ![workflow_id] = updated]]

\* a slip that forgets the administrator override when listing actions
GetAvailableActionsWithoutAdministrator(ws, workflow_id, user_role) ==
    IF workflow_id \notin DOMAIN ws
    THEN <<>>
    ELSE LET open == SelectSeq(_initialize_transitions,
                        LAMBDA t : /\ t.from_state = ws[workflow_id].current_state
                                   /\ t.required_role = user_role)
         IN [i \in 1..Len(open) |-> open[i].action]

\* WorkflowEngine.get_available_actions: the actions in table order
get_available_actions(ws, workflow_id, user_role) ==
    IF workflow_id \notin DOMAIN ws
    THEN <<>>
    ELSE LET open == SelectSeq(_initialize_transitions,
                        LAMBDA t : /\ t.from_state = ws[workflow_id].current_state
                                   /\ (t.required_role = user_role \/ user_role = "administrator"))
         IN [i \in 1..Len(open) |-> open[i].action]

(***************************************************************************)
(* Bounds and the inputs the operations are driven with                    *)
(***************************************************************************)
MaxAssertions == 2      \* assertions per manifest
MaxIssueCount == 3      \* issue_count handed to _determine_trust_level
MaxRules == 2           \* rules of a policy that mixes severities
MaxChain == 3           \* steps of an approval chain
MaxHistory == 9         \* transitions one workflow instance goes through

\* payloads as the AssertionBuilder lays them out
HashOk == [kind |-> "dict", v |-> [name |-> "sha256", alg |-> "sha256", hash |-> "h1"]]
HashEdited == [kind |-> "dict", v |-> [name |-> "sha256", alg |-> "sha256", hash |-> "h2"]]
HashNoAlg == [kind |-> "dict", v |-> [name |-> "sha256"]]
HashList == [kind |-> "list", v |-> <<"sha256">>]
ActionsOk == [kind |-> "dict", v |-> [actions |-> <<[action |-> "c2pa.created", when |-> 1]>>]]
ActionsEmpty == [kind |-> "dict", v |-> [actions |-> <<>>]]
CreativeWork == [kind |-> "dict", v |-> [name |-> "a"]]

SessionAssertions ==
    <<Assertion("c2pa.hash.data", HashOk), Assertion("c2pa.actions", ActionsOk)>>
ValidatorAssertions ==
    <<Assertion("c2pa.hash.data", HashOk), Assertion("c2pa.hash.data", HashNoAlg),
      Assertion("c2pa.hash.data", HashList), Assertion("c2pa.actions", ActionsOk),
      Assertion("c2pa.actions", ActionsEmpty),
      Assertion("stds.schema-org.CreativeWork", CreativeWork)>>

Salts == {1, 2}
DataInputs == {<<1>>, <<2>>}
Certs == {"certA", "certB"}
SessionSignatures ==
    {NoSignature} \cup {Signature(a, <<"certA">>, v) : a \in {"ps256", "ml-dsa-65"}, v \in {<<>>, <<1>>}}
ValidatorSignatures ==
    {NoSignature} \cup
    {Signature(a, c, <<1>>) :
        a \in {"ps256", "es256", "ml-dsa-65", "slh-dsa-sha2-128s", "hybrid-rsa-ml-dsa-65"},
        c \in {<<>>, <<"certA">>}}

\* workflow payloads as build_workflow_assertion lays them out (the approval
\* chain and the compliance record are left out)
WorkflowPublic == [kind |-> "dict", v |-> [workflow_id |-> "WF-1", classification |-> "public"]]
WorkflowSecret == [kind |-> "dict", v |-> [workflow_id |-> "WF-2", classification |-> "secret"]]
WorkflowNoClass == [kind |-> "dict", v |-> [workflow_id |-> "WF-3"]]
PolicyAssertions ==
    <<Assertion("org.enterprise.workflow", WorkflowPublic),
      Assertion("org.enterprise.workflow", WorkflowSecret),
      Assertion("org.enterprise.workflow", WorkflowNoClass),
      Assertion("c2pa.hash.data", HashOk)>>

\* the rules a caller registers, one per policy
AssertionRules ==
    {PolicyRule("require_hash", "required_assertion", "error", en, "c2pa.hash.data", "",
                <<>>, PyNone, PyNone, <<>>, "") : en \in BOOLEAN}
    \cup {PolicyRule("forbid_workflow", "forbidden_assertion", "warning", TRUE,
                     "org.enterprise.workflow", "", <<>>, PyNone, PyNone, <<>>, "")}
FieldRules ==
    {PolicyRule("require_field", "required_field", sev, TRUE, "", f,
                <<>>, PyNone, PyNone, <<>>, "") :
        sev \in {"error", "info"}, f \in {"format", "updated_at", "title"}}
ValueRules ==
    {PolicyRule("constrain_format", "value_constraint", "warning", TRUE, "", "format",
                allowed, lo, hi, <<>>, "") :
        allowed \in {<<>>, <<PyStr("video/mp4")>>},
        lo \in {PyNone, PyStr("application/pdf"), PyStr("video/mp4"), PyInt(5)},
        hi \in {PyNone, PyStr("Acme/1.0")}}
    \cup {PolicyRule("constrain_format", "value_constraint", "error", TRUE, "", "format",
                     <<PyStr("image/jpeg"), PyStr("video/mp4")>>, PyNone,
                     PyStr("video/mp4"), <<>>, "")}
    \cup {PolicyRule("constrain_field", "value_constraint", "error", TRUE, "", f,
                     <<PyDatetime(2)>>, lo, PyNone, <<>>, "") :
             f \in {"updated_at", "title"}, lo \in {PyDatetime(2), PyStr("video/mp4")}}
ClassificationRules ==
    {PolicyRule("classification", "classification_constraint", sev, TRUE, "", "",
                <<>>, PyNone, PyNone, levels, "") :
        sev \in {"error", "warning"},
        levels \in {<<>>, <<"public">>, <<"confidential", "secret">>}}
CustomRules ==
    {PolicyRule("custom", "custom_function", sev, TRUE, "", "",
                <<>>, PyNone, PyNone, <<>>, "f") : sev \in PolicyRuleSeverity}
    \cup {PolicyRule("custom", "custom_function", "warning", TRUE, "", "",
                     <<>>, PyNone, PyNone, <<>>, fn) : fn \in {"", "g"}}
SingleRules == AssertionRules \cup FieldRules \cup ValueRules \cup ClassificationRules \cup CustomRules

\* the rules of the policies that mix severities: an error rule, a disabled
\* error rule and a warning rule
MixRules ==
    {PolicyRule("m_error", "required_assertion", "error", TRUE, "c2pa.hash.data", "",
                <<>>, PyNone, PyNone, <<>>, ""),
     PolicyRule("m_disabled", "required_field", "error", FALSE, "", "title",
                <<>>, PyNone, PyNone, <<>>, ""),
     PolicyRule("m_warning", "required_field", "warning", TRUE, "", "title",
                <<>>, PyNone, PyNone, <<>>, "")}

PolicyInputs ==
    {OrganizationalPolicy("custom", <<r>>) : r \in SingleRules}
    \cup {OrganizationalPolicy("custom", rs) : rs \in UNION {[1..n -> MixRules] : n \in 2..MaxRules}}
PolicyNames == {"custom", "marketing_content", "legal_documents"}
CustomFunctions == {"true", "false", "raise"}

NoEvaluation ==
    [name |-> "none", policy_name |-> "", exc |-> "none", passed |-> FALSE,
     violations |-> <<>>]
NoResult ==
    [valid |-> FALSE, trust_level |-> "none", signature_valid |-> FALSE,
     certificate_trusted |-> FALSE, chain_complete |-> FALSE, assertions_verified |-> <<>>,
     issues |-> <<>>, warnings |-> <<>>, structure_valid |-> FALSE, assertions_valid |-> FALSE]
NoOp ==
    [name |-> "none", exc |-> "none", ret |-> FALSE, strict |-> FALSE, result |-> NoResult,
     prev_name |-> "none", prev_exc |-> "none"]
NoCall ==
    [name |-> "none", workflow_id |-> <<>>, action |-> "", user_role |-> "", target |-> 0,
     assertion |-> <<>>, step |-> <<>>, pdpa_approved |-> <<>>, trademark_cleared |-> <<>>,
     legal_review |-> <<>>, exc |-> "none", ret |-> <<>>]
NoPrim ==
    [name |-> "none", algorithm |-> "", key |-> NoKey, data |-> <<>>, vdata |-> <<>>,
     sign_exc |-> "none", signature |-> <<>>, corrupt_classical |-> FALSE,
     corrupt_pqc |-> FALSE, exc |-> "none", ret |-> FALSE]
NoDecision ==
    [name |-> "none", structure_valid |-> FALSE, assertions_valid |-> FALSE,
     signature_valid |-> FALSE, certificate_trusted |-> FALSE, chain_complete |-> FALSE,
     issue_count |-> 0, strict |-> FALSE, trust_level |-> "none", valid |-> FALSE]

(***************************************************************************)
(* The session: one manifest, one signer, one validator                    *)
(***************************************************************************)
Init ==
    /\ manifest = Manifest("Acme/1.0", "image/jpeg", <<"a">>, <<>>, NoSignature)
    /\ signer = SignerInit("ml-dsa-65", NoFile, <<>>).signer
    /\ trusted_certificates = {}
    /\ sinceSign = "none"
    /\ op = NoOp
    /\ prim = NoPrim
    /\ decision = NoDecision
    /\ engine = PolicyEngineInit
    /\ evaluation = NoEvaluation
    /\ workflows = WorkflowEngineInit
    /\ call = NoCall

\* Manifest(claim_generator=..., format=..., instance_id=..., signature=...)
NewManifest(claim_generator, format, instance_id, signature) ==
    /\ manifest' = Manifest(claim_generator, format, instance_id, <<>>, signature)
    /\ sinceSign' = IF signature.present THEN "unchanged" ELSE "none"
    /\ op' = NoOp
    /\ evaluation' = NoEvaluation
    /\ call' = NoCall
    /\ UNCHANGED <<signer, trusted_certificates, prim, decision, engine, workflows>>

\* ManifestCreator.add_assertion: append, then updated_at = now
AddAssertion(assertion) ==
    /\ Len(manifest.assertions) < MaxAssertions
    /\ manifest' = [manifest EXCEPT !.assertions = Append(@, assertion), !.updated_at = 1]
    /\ sinceSign' = IF manifest.signature.present THEN "mutated" ELSE sinceSign
    /\ op' = NoOp
    /\ evaluation' = NoEvaluation
    /\ call' = NoCall
    /\ UNCHANGED <<signer, trusted_certificates, prim, decision, engine, workflows>>

\* a caller edits a payload field of assertion i in place (Assertion.data is a
\* plain mutable dict): the recorded content hash is replaced
EditPayload(i) ==
    /\ i \in 1..Len(manifest.assertions)
    /\ manifest.assertions[i].data = HashOk
    /\ manifest' = [manifest EXCEPT !.assertions[i].data = HashEdited]
    /\ sinceSign' = IF manifest.signature.present THEN "mutated" ELSE sinceSign
    /\ op' = NoOp
    /\ evaluation' = NoEvaluation
    /\ call' = NoCall
    /\ UNCHANGED <<signer, trusted_certificates, prim, decision, engine, workflows>>

\* Signer(algorithm, private_key_path, certificate_path); a constructor that
\* raises leaves no new Signer
NewSigner(algorithm, file, certs) ==
    /\ SignerInit(algorithm, file, certs).exc = "none"
    /\ signer' = SignerInit(algorithm, file, certs).signer
    /\ op' = NoOp
    /\ UNCHANGED <<manifest, trusted_certificates, sinceSign, prim, decision, engine, evaluation, workflows, call>>

\* ManifestValidator(trusted_certificates)
NewValidator(trusted) ==
    /\ trusted_certificates' = trusted
    /\ op' = NoOp
    /\ UNCHANGED <<manifest, signer, sinceSign, prim, decision, engine, evaluation, workflows, call>>

\* signer.sign(manifest)
Sign(salt) ==
    LET r == SignerSign(signer, manifest, salt)
    IN /\ manifest' = r.manifest
       /\ sinceSign' = IF r.exc = "none" THEN "unchanged" ELSE sinceSign
       /\ op' = [NoOp EXCEPT !.name = "sign", !.exc = r.exc,
                             !.prev_name = op.name, !.prev_exc = op.exc]
       /\ UNCHANGED <<signer, trusted_certificates, prim, decision, engine, evaluation, workflows, call>>

\* signer.verify(manifest)
Verify ==
    LET r == SignerVerify(signer, manifest)
    IN /\ op' = [NoOp EXCEPT !.name = "verify", !.exc = r.exc, !.ret = r.val,
                             !.prev_name = op.name, !.prev_exc = op.exc]
       /\ UNCHANGED <<manifest, signer, trusted_certificates, sinceSign, prim, decision, engine, evaluation, workflows, call>>

\* a slip that strips the signature from the manifest itself instead of from a copy
ValidatePoppingSignature(strict) ==
    /\ op' = [NoOp EXCEPT !.name = "validate", !.strict = strict,
                          !.result = validate(manifest, trusted_certificates, strict),
                          !.prev_name = op.name, !.prev_exc = op.exc]
    /\ manifest' = [manifest EXCEPT !.signature = NoSignature]
    /\ UNCHANGED <<signer, trusted_certificates, sinceSign, prim, decision, engine, evaluation, workflows, call>>

\* validator.validate(manifest, strict)
Validate(strict) ==
    /\ op' = [NoOp EXCEPT !.name = "validate", !.strict = strict,
                          !.result = validate(manifest, trusted_certificates, strict),
                          !.prev_name = op.name, !.prev_exc = op.exc]
    /\ UNCHANGED <<manifest, signer, trusted_certificates, sinceSign, prim, decision, engine, evaluation, workflows, call>>

Next ==
    \/ \E sg \in SessionSignatures : NewManifest("Acme/1.0", "image/jpeg", <<"a">>, sg)
    \/ \E i \in 1..Len(SessionAssertions) : AddAssertion(SessionAssertions[i])
    \/ \E i \in 1..MaxAssertions : EditPayload(i)
    \/ \E a \in SignatureAlgorithm, f \in KeyFiles : NewSigner(a, f, <<"certA">>)
    \/ \E t \in {{}, {"certA"}} : NewValidator(t)
    \/ \E salt \in Salts : Sign(salt)
    \/ Verify
    \/ \E strict \in BOOLEAN : Validate(strict)

Spec == Init /\ [][Next]_vars

(***************************************************************************)
(* The validator alone, on manifests as a store or a peer hands them over  *)
(***************************************************************************)
NextValidate ==
    \/ \E cg \in {"", "Acme/1.0"}, fmt \in {"", "image/jpeg"}, sg \in ValidatorSignatures :
          NewManifest(cg, fmt, <<"a">>, sg)
    \/ \E i \in 1..Len(ValidatorAssertions) : AddAssertion(ValidatorAssertions[i])
    \/ \E t \in {{}, {"certA"}, {"certB"}} : NewValidator(t)
    \/ \E strict \in BOOLEAN : Validate(strict)

SpecValidate == Init /\ [][NextValidate]_vars

(***************************************************************************)
(* The signature primitives applied to raw bytes                           *)
(***************************************************************************)
\* _compute_signature(data) followed by _verify_signature(vdata, signature)
\* on one Signer
PrimSignVerify(algorithm, file, data, vdata, salt) ==
    LET si == SignerInit(algorithm, file, <<>>)
        sg == _compute_signature(si.signer, data, salt)
        vr == _verify_signature(si.signer, vdata, sg.val)
    IN /\ si.exc = "none"
       /\ prim' = [NoPrim EXCEPT !.name = "sign_verify", !.algorithm = algorithm,
                      !.key = si.signer._private_key, !.data = data, !.vdata = vdata,
                      !.sign_exc = sg.exc,
                      !.signature = IF sg.exc = "none" THEN sg.val ELSE <<>>,
                      !.exc = IF sg.exc = "none" THEN vr.exc ELSE "none",
                      !.ret = IF sg.exc = "none" THEN vr.val ELSE FALSE]
       /\ UNCHANGED <<manifest, signer, trusted_certificates, sinceSign, op, decision, engine, evaluation, workflows, call>>

\* the first byte of a byte string replaced by another byte: what no signing
\* primitive produces over any data, key or salt
Corrupt(b) == [b EXCEPT ![1] = (b[1] + 1) % 256]

\* _verify_signature of a hybrid Signer on a composite signature whose halves
\* were made over data by an RSA-PSS Signer and by an ML-DSA Signer holding
\* the verifier's key material, each half then corrupted or left intact
PrimVerifyHybrid(algorithm, file, data, salt, corrupt_classical, corrupt_pqc) ==
    LET si == SignerInit(algorithm, file, <<>>)
        classical == _sign_rsa_pss(SignerInit("ps256", PemFile, <<>>).signer, data, salt).val
        pqc == _sign_ml_dsa(SignerInit("ml-dsa-65", file, <<>>).signer, data).val
        sg == HybridEncode(IF corrupt_classical THEN Corrupt(classical) ELSE classical,
                           IF corrupt_pqc THEN Corrupt(pqc) ELSE pqc)
        vr == _verify_signature(si.signer, data, sg)
    IN /\ algorithm \in HYBRID
       /\ prim' = [NoPrim EXCEPT !.name = "verify_hybrid", !.algorithm = algorithm,
                      !.key = si.signer._private_key, !.data = data, !.vdata = data,
                      !.signature = sg, !.corrupt_classical = corrupt_classical,
                      !.corrupt_pqc = corrupt_pqc, !.exc = vr.exc, !.ret = vr.val]
       /\ UNCHANGED <<manifest, signer, trusted_certificates, sinceSign, op, decision, engine, evaluation, workflows, call>>

NextPrim ==
    \/ \E a \in SignatureAlgorithm, f \in KeyFiles, d \in DataInputs, vd \in DataInputs, salt \in Salts :
          PrimSignVerify(a, f, d, vd, salt)
    \/ \E a \in HYBRID, f \in KeyFiles, d \in DataInputs, salt \in Salts, c1 \in BOOLEAN, c2 \in BOOLEAN :
          PrimVerifyHybrid(a, f, d, salt, c1, c2)

SpecPrim == Init /\ [][NextPrim]_vars

(***************************************************************************)
(* The decision at the end of validate() on every combination of stage     *)
(* outcomes                                                                *)
(***************************************************************************)
ApplyDecision(structure_valid, assertions_valid, signature_valid, certificate_trusted, chain_complete, issue_count, strict) ==
    /\ decision' =
          [name |-> "decided", structure_valid |-> structure_valid,
           assertions_valid |-> assertions_valid, signature_valid |-> signature_valid,
           certificate_trusted |-> certificate_trusted, chain_complete |-> chain_complete,
           issue_count |-> issue_count, strict |-> strict,
           trust_level |-> _determine_trust_level(signature_valid, certificate_trusted,
                                                  chain_complete, issue_count),
           valid |-> OverallValid(structure_valid, assertions_valid, signature_valid,
                                  certificate_trusted, chain_complete, strict)]
    /\ UNCHANGED <<manifest, signer, trusted_certificates, sinceSign, op, prim, engine, evaluation, workflows, call>>

NextDecision ==
    \E st \in BOOLEAN, av \in BOOLEAN, sv \in BOOLEAN, ct \in BOOLEAN, cc \in BOOLEAN,
       n \in 0..MaxIssueCount, strict \in BOOLEAN :
          ApplyDecision(st, av, sv, ct, cc, n, strict)

SpecDecision == Init /\ [][NextDecision]_vars

(***************************************************************************)
(* The policy engine on manifests with workflow assertions                 *)
(***************************************************************************)
\* engine.add_policy(policy)
AddPolicy(policy) ==
    /\ engine' = add_policy(engine, policy)
    /\ evaluation' = NoEvaluation
    /\ UNCHANGED <<manifest, signer, trusted_certificates, sinceSign, op, prim, decision, workflows, call>>

\* engine.register_custom_function(name, function)
RegisterCustomFunction(name, function) ==
    /\ engine' = register_custom_function(engine, name, function)
    /\ evaluation' = NoEvaluation
    /\ UNCHANGED <<manifest, signer, trusted_certificates, sinceSign, op, prim, decision, workflows, call>>

\* engine.evaluate(manifest, policy_name)
Evaluate(policy_name) ==
    LET r == evaluate(engine, manifest, policy_name)
    IN /\ evaluation' = [name |-> "evaluate", policy_name |-> policy_name, exc |-> r.exc,
                         passed |-> r.passed, violations |-> r.violations]
       /\ UNCHANGED <<manifest, signer, trusted_certificates, sinceSign, op, prim, decision, engine, workflows, call>>

NextPolicy ==
    \/ NewManifest("Acme/1.0", "image/jpeg", <<"a">>, NoSignature)
    \/ \E i \in 1..Len(PolicyAssertions) : AddAssertion(PolicyAssertions[i])
    \/ \E policy \in PolicyInputs : AddPolicy(policy)
    \/ \E function \in CustomFunctions : RegisterCustomFunction("f", function)
    \/ \E policy_name \in PolicyNames : Evaluate(policy_name)

SpecPolicy == Init /\ [][NextPolicy]_vars

(***************************************************************************)
(* A validator and a policy engine on the same manifest                    *)
(***************************************************************************)
PureSignatures == {NoSignature, Signature("ml-dsa-65", <<"certA">>, <<1>>)}
PureAssertions ==
    <<Assertion("org.enterprise.workflow", WorkflowSecret),
      Assertion("c2pa.hash.data", HashOk), Assertion("c2pa.hash.data", HashNoAlg)>>
PurePolicies ==
    {OrganizationalPolicy("custom", <<r>>) :
        r \in {PolicyRule("custom", "custom_function", "error", TRUE, "", "",
                          <<>>, PyNone, PyNone, <<>>, "f"),
               PolicyRule("classification", "classification_constraint", "error", TRUE, "", "",
                          <<>>, PyNone, PyNone, <<"public">>, ""),
               PolicyRule("require_field", "required_field", "warning", TRUE, "", "updated_at",
                          <<>>, PyNone, PyNone, <<>>, "")}}

NextPure ==
    \/ \E sg \in PureSignatures : NewManifest("Acme/1.0", "image/jpeg", <<"a">>, sg)
    \/ \E i \in 1..Len(PureAssertions) : AddAssertion(PureAssertions[i])
    \/ \E trusted \in SUBSET {"certA"} : NewValidator(trusted)
    \/ \E policy \in PurePolicies : AddPolicy(policy)
    \/ \E function \in CustomFunctions : RegisterCustomFunction("f", function)
    \/ \E strict \in BOOLEAN : Validate(strict)
    \/ \E policy_name \in PolicyNames : Evaluate(policy_name)

SpecPure == Init /\ [][NextPure]_vars

(***************************************************************************)
(* The workflow engine on the workflows of the session's manifests         *)
(***************************************************************************)
\* instance ids a caller constructs manifests with: bare, and already prefixed
InstanceIds == {<<"a">>, <<"xmp:iid:", "a">>, <<"uuid:", "b">>}
UserRoles == {"creator", "reviewer", "approver", "manager", "administrator", "guest"}

\* engine.create_workflow(manifest, user_id, user_name)
CreateWorkflow(user_id) ==
    LET r == create_workflow(workflows, manifest, user_id)
    IN /\ workflows' = r.workflows
       /\ call' = [NoCall EXCEPT !.name = "create_workflow",
                                 !.workflow_id = manifest.instance_id]
       /\ UNCHANGED <<manifest, signer, trusted_certificates, sinceSign, op, prim, decision, engine, evaluation>>

\* engine.transition(workflow_id, action, user_id, user_name, user_role) on the
\* workflow id of the session's manifest
Transition(action, user_role) ==
    LET workflow_id == manifest.instance_id
        r == transition(workflows, workflow_id, action, "u1", user_role)
    IN /\ r.exc = "none" => Len(workflows[workflow_id].history) < MaxHistory
       /\ workflows' = r.workflows
       /\ call' = [NoCall EXCEPT !.name = "transition", !.workflow_id = workflow_id,
                                 !.action = action, !.user_role = user_role,
                                 !.exc = r.exc, !.ret = r.val]
       /\ UNCHANGED <<manifest, signer, trusted_certificates, sinceSign, op, prim, decision, engine, evaluation>>

\* engine.get_available_actions(workflow_id, user_role)
GetAvailableActions(user_role) ==
    /\ call' = [NoCall EXCEPT !.name = "get_available_actions",
                              !.workflow_id = manifest.instance_id,
                              !.user_role = user_role,
                              !.ret = get_available_actions(workflows, manifest.instance_id,
                                                            user_role)]
    /\ UNCHANGED <<manifest, signer, trusted_certificates, sinceSign, op, prim, decision, engine, evaluation, workflows>>

NextWorkflow ==
    \/ \E instance_id \in InstanceIds :
          NewManifest("Acme/1.0", "image/jpeg", instance_id, NoSignature)
    \/ CreateWorkflow("u1")
    \/ \E action \in WorkflowAction, user_role \in UserRoles : Transition(action, user_role)
    \/ \E user_role \in UserRoles : GetAvailableActions(user_role)

SpecWorkflow == Init /\ [][NextWorkflow]_vars

(***************************************************************************)
(* A manifest and the mutators of its workflow assertion                   *)
(***************************************************************************)
CodecAssertions ==
    <<build_workflow_assertion("WF-1", "u1", "public"), Assertion("c2pa.hash.data", HashOk)>>
ApprovalSteps == {WorkflowStep("approver", "u2", "approved")}
PdpaInputs == {None, Some(TRUE)}
TrademarkInputs == {None}
LegalInputs == {None, Some("passed")}

ChainLength(assertion) ==
    IF assertion.data.kind = "dict" /\ "approval_chain" \in DOMAIN assertion.data.v
    THEN Len(assertion.data.v.approval_chain)
    ELSE 0

\* manifest.add_assertion(label, data)
ManifestAddAssertion(label, data) ==
    /\ Len(manifest.assertions) < MaxAssertions
    /\ manifest' = [manifest EXCEPT !.assertions = Append(@, Assertion(label, data))]
    /\ sinceSign' = IF manifest.signature.present THEN "mutated" ELSE sinceSign
    /\ op' = NoOp
    /\ evaluation' = NoEvaluation
    /\ call' = [NoCall EXCEPT !.name = "add_assertion", !.assertion = Assertion(label, data)]
    /\ UNCHANGED <<signer, trusted_certificates, prim, decision, engine, workflows>>

\* builder.add_approval_to_workflow(manifest.assertions[i], ...): the payload
\* the builder appends to is the one the manifest holds
AddApprovalToWorkflow(i, step) ==
    /\ i \in 1..Len(manifest.assertions)
    /\ ChainLength(manifest.assertions[i]) < MaxChain
    /\ LET r == add_approval_to_workflow(manifest.assertions[i], step.user_id, step.role,
                                         step.status)
       IN /\ manifest' = [manifest EXCEPT !.assertions[i] = r.assertion]
          /\ call' = [NoCall EXCEPT !.name = "add_approval_to_workflow", !.target = i,
                                    !.step = step, !.exc = r.exc]
    /\ op' = NoOp
    /\ evaluation' = NoEvaluation
    /\ UNCHANGED <<signer, trusted_certificates, sinceSign, prim, decision, engine, workflows>>

\* builder.update_compliance_check(manifest.assertions[i], ...)
UpdateComplianceCheck(i, pdpa_approved, trademark_cleared, legal_review) ==
    /\ i \in 1..Len(manifest.assertions)
    /\ LET r == update_compliance_check(manifest.assertions[i], pdpa_approved,
                                        trademark_cleared, legal_review)
       IN /\ manifest' = [manifest EXCEPT !.assertions[i] = r.assertion]
          /\ call' = [NoCall EXCEPT !.name = "update_compliance_check", !.target = i,
                                    !.pdpa_approved = pdpa_approved,
                                    !.trademark_cleared = trademark_cleared,
                                    !.legal_review = legal_review, !.exc = r.exc]
    /\ op' = NoOp
    /\ evaluation' = NoEvaluation
    /\ UNCHANGED <<signer, trusted_certificates, sinceSign, prim, decision, engine, workflows>>

\* creator.add_approval(manifest, ...)
AddApproval(step) ==
    /\ LET i == FirstIndex(manifest, "org.enterprise.workflow")
       IN IF i = 0 THEN TRUE ELSE ChainLength(manifest.assertions[i]) < MaxChain
    /\ LET r == add_approval(manifest, step.user_id, step.role, step.status)
       IN /\ manifest' = r.manifest
          /\ call' = [NoCall EXCEPT !.name = "add_approval",
                                    !.target = FirstIndex(manifest, "org.enterprise.workflow"),
                                    !.step = step, !.exc = r.exc]
    /\ op' = NoOp
    /\ evaluation' = NoEvaluation
    /\ UNCHANGED <<signer, trusted_certificates, sinceSign, prim, decision, engine, workflows>>

\* creator.update_compliance(manifest, ...)
UpdateCompliance(pdpa_approved, trademark_cleared, legal_review) ==
    /\ LET r == update_compliance(manifest, pdpa_approved, trademark_cleared, legal_review)
       IN /\ manifest' = r.manifest
          /\ call' = [NoCall EXCEPT !.name = "update_compliance",
                                    !.target = FirstIndex(manifest, "org.enterprise.workflow"),
                                    !.pdpa_approved = pdpa_approved,
                                    !.trademark_cleared = trademark_cleared,
                                    !.legal_review = legal_review, !.exc = r.exc]
    /\ op' = NoOp
    /\ evaluation' = NoEvaluation
    /\ UNCHANGED <<signer, trusted_certificates, sinceSign, prim, decision, engine, workflows>>

NextCodec ==
    \/ NewManifest("Acme/1.0", "image/jpeg", <<"a">>, NoSignature)
    \/ \E i \in 1..Len(CodecAssertions) : AddAssertion(CodecAssertions[i])
    \/ \E i \in 1..Len(CodecAssertions) :
          ManifestAddAssertion(CodecAssertions[i].label, CodecAssertions[i].data)
    \/ \E i \in 1..MaxAssertions, step \in ApprovalSteps : AddApprovalToWorkflow(i, step)
    \/ \E i \in 1..MaxAssertions, pdpa_approved \in PdpaInputs,
          trademark_cleared \in TrademarkInputs, legal_review \in LegalInputs :
          UpdateComplianceCheck(i, pdpa_approved, trademark_cleared, legal_review)
    \/ \E step \in ApprovalSteps : AddApproval(step)
    \/ \E pdpa_approved \in PdpaInputs, trademark_cleared \in TrademarkInputs,
          legal_review \in LegalInputs :
          UpdateCompliance(pdpa_approved, trademark_cleared, legal_review)

SpecCodec == Init /\ [][NextCodec]_vars

(***************************************************************************)
(* validate() on each outcome signer.verify can have                       *)
(*                                                                         *)
(* Signer.verify returns a bool or raises.  The stages of validate() are   *)
(* applied to the manifest as they are, the signature stage on a given     *)
(* outcome of verify: the result is what validate() returns whenever       *)
(* verify has that outcome.                                                *)
(***************************************************************************)
VerifyOutcomes == {Ok(TRUE), Ok(FALSE), Raise("TypeError")}
StageSignatures ==
    {NoSignature, Signature("ps256", <<>>, <<1>>), Signature("ps256", <<"certA">>, <<1>>)}

\* validator.validate(manifest, strict) where signer.verify(manifest) has outcome valid
ValidateOnVerdict(strict, valid) ==
    LET st == _validate_structure(manifest, <<>>, <<>>)
        av == _validate_assertions(manifest, <<>>, st.issues, st.warnings)
        sg == IF manifest.signature.present
              THEN SignatureVerdict(valid, av.issues, av.warnings)
              ELSE MissingSignature(av.issues, av.warnings)
    IN /\ op' = [NoOp EXCEPT
                   !.name = "validate", !.strict = strict,
                   !.ret = valid.exc = "none" /\ valid.val,
                   !.result = ValidateAfterSignature(manifest, trusted_certificates, strict,
                                                     st, av, sg),
                   !.prev_name = op.name, !.prev_exc = op.exc]
       /\ UNCHANGED <<manifest, signer, trusted_certificates, sinceSign, prim, decision, engine, evaluation, workflows, call>>

NextStages ==
    \/ \E sg \in StageSignatures : NewManifest("Acme/1.0", "image/jpeg", <<"a">>, sg)
    \/ \E i \in 1..Len(ValidatorAssertions) : AddAssertion(ValidatorAssertions[i])
    \/ \E t \in {{}, {"certA"}} : NewValidator(t)
    \/ \E strict \in BOOLEAN, valid \in VerifyOutcomes : ValidateOnVerdict(strict, valid)

SpecStages == Init /\ [][NextStages]_vars

(***************************************************************************)
(* Properties                                                              *)
(***************************************************************************)
HasIssue(result, code) ==
    \E i \in 1..Len(result.issues) : result.issues[i] = ValidationIssue("error", code)
HasWarning(result, code) ==
    \E i \in 1..Len(result.warnings) : result.warnings[i] = ValidationIssue("warning", code)

SupportedTags == RSA_PSS \cup ML_DSA \cup SLH_DSA \cup HYBRID

\* C1 (Spec): round trip.  When a Signer of a supported tag with key material
\* loaded has signed the manifest and verifies it next, nothing having
\* changed in between, sign() has returned and verify() returns true.
C1_RoundTrip ==
    (/\ op.name = "verify"
     /\ op.prev_name = "sign"
     /\ signer.algorithm \in SupportedTags
     /\ signer._private_key.kind # "none")
    => (op.prev_exc = "none" /\ op.exc = "none" /\ op.ret = TRUE)

\* C2 (SpecPrim): tamper sensitivity.  A signature made over some bytes does
\* not verify over other bytes, whatever the tag.
C2_TamperSensitive ==
    (/\ prim.name = "sign_verify"
     /\ prim.sign_exc = "none"
     /\ prim.vdata # prim.data)
    => (prim.exc = "none" /\ prim.ret = FALSE)

\* C3 (SpecPrim): hybrid AND.  A hybrid signature with a corrupted classical
\* half or a corrupted post-quantum half does not verify.
C3_HybridAnd ==
    (prim.name = "verify_hybrid" /\ (prim.corrupt_classical \/ prim.corrupt_pqc))
    => (prim.exc = "none" /\ prim.ret = FALSE)

\* C4 (SpecDecision): the trust level is the table of the specification: an
\* error issue gives INVALID; else valid + trusted + custody gives ENTERPRISE,
\* valid + trusted STANDARD, valid BASIC, anything else INVALID; never
\* HIGH_ASSURANCE.
C4_TrustLevelTable ==
    decision.name = "decided" =>
        /\ decision.trust_level \in ValidationLevel \ {"high_assurance"}
        /\ decision.issue_count > 0 => decision.trust_level = "invalid"
        /\ decision.issue_count = 0 =>
              decision.trust_level =
                 CASE decision.signature_valid /\ decision.certificate_trusted
                         /\ decision.chain_complete -> "enterprise"
                   [] decision.signature_valid /\ decision.certificate_trusted
                         /\ ~decision.chain_complete -> "standard"
                   [] decision.signature_valid /\ ~decision.certificate_trusted -> "basic"
                   [] OTHER -> "invalid"

C4_Witness ==
    /\ decision.name = "decided"
    /\ decision.issue_count = 0
    /\ decision.trust_level = "standard"

\* C5 (SpecValidate): a manifest without a c2pa.hash.data assertion is
\* validated with the missing-hash error recorded, valid = false and trust
\* level INVALID.
C5_HashMandatory ==
    (op.name = "validate" /\ ~HasAssertion(manifest, "c2pa.hash.data"))
    => (/\ HasIssue(op.result, "MISSING_HASH_ASSERTION")
        /\ ~op.result.valid
        /\ op.result.trust_level = "invalid")

\* C6 (Spec): the end-to-end scenario.  A manifest with claim_generator,
\* format and a content hash, signed by an RSA-PSS Signer whose certificate
\* the validator trusts and validated next, is ENTERPRISE with a c2pa.actions
\* assertion and STANDARD without.
C6_Scenario ==
    (/\ op.name = "validate"
     /\ op.prev_name = "sign"
     /\ signer.algorithm \in RSA_PSS
     /\ signer._private_key.kind = "rsa"
     /\ manifest.claim_generator # "" /\ manifest.format # ""
     /\ HasAssertion(manifest, "c2pa.hash.data")
     /\ \E i \in 1..Len(signer._certificate_chain) :
           signer._certificate_chain[i] \in trusted_certificates)
    => op.result.trust_level =
          IF HasAssertion(manifest, "c2pa.actions") THEN "enterprise" ELSE "standard"

\* C7 (SpecDecision): valid is structure /\ assertions /\ signature, and in
\* strict mode also certificate trust /\ chain of custody; so what is valid
\* in strict mode is valid in non-strict mode.
C7_Validity ==
    decision.name = "decided" =>
        /\ decision.valid =
              (/\ decision.structure_valid
               /\ decision.assertions_valid
               /\ decision.signature_valid
               /\ (decision.strict => decision.certificate_trusted /\ decision.chain_complete))
        /\ (decision.strict /\ decision.valid) =>
              OverallValid(decision.structure_valid, decision.assertions_valid,
                           decision.signature_valid, decision.certificate_trusted,
                           decision.chain_complete, FALSE)

C7_Witness ==
    /\ decision.name = "decided"
    /\ decision.strict
    /\ ~decision.valid
    /\ OverallValid(decision.structure_valid, decision.assertions_valid,
                    decision.signature_valid, decision.certificate_trusted,
                    decision.chain_complete, FALSE)

Rank(level) ==
    CASE level = "invalid" -> 0
      [] level = "basic" -> 1
      [] level = "standard" -> 2
      [] level = "enterprise" -> 3
      [] level = "high_assurance" -> 4

\* C8 (SpecDecision): monotonicity.  With the other stage outcomes fixed, the
\* trust level with the certificate trusted is never below the trust level
\* with it untrusted.
C8_Monotone ==
    (decision.name = "decided" /\ ~decision.certificate_trusted)
    => Rank(_determine_trust_level(decision.signature_valid, TRUE,
                                   decision.chain_complete, decision.issue_count))
          >= Rank(decision.trust_level)

C8_Witness ==
    /\ decision.name = "decided"
    /\ ~decision.certificate_trusted
    /\ ~decision.chain_complete
    /\ decision.trust_level = "basic"
    /\ _determine_trust_level(decision.signature_valid, TRUE,
                              decision.chain_complete, decision.issue_count) = "standard"

\* C9 (SpecValidate): a manifest without a signature is validated with the
\* NO_SIGNATURE error recorded, signature_valid = false, valid = false and
\* trust level INVALID.
C9_MissingSignature ==
    (op.name = "validate" /\ ~manifest.signature.present)
    => (/\ HasIssue(op.result, "NO_SIGNATURE")
        /\ ~op.result.signature_valid
        /\ ~op.result.valid
        /\ op.result.trust_level = "invalid")

C9_Witness ==
    /\ op.name = "validate"
    /\ ~manifest.signature.present
    /\ op.result.structure_valid
    /\ op.result.assertions_valid
    /\ HasAssertion(manifest, "c2pa.hash.data")
    /\ op.result.issues = <<ValidationIssue("error", "NO_SIGNATURE")>>

\* C10 (SpecValidate): no stage is skipped.  The result holds what the
\* certificate-trust stage finds on this manifest, also without a signature,
\* and the missing-hash error whenever there is no content hash.
C10_NoShortCircuit ==
    op.name = "validate" =>
        /\ LET ct == _validate_certificate_trust(manifest, trusted_certificates, <<>>, <<>>)
           IN \A i \in 1..Len(ct.warnings) : HasWarning(op.result, ct.warnings[i].code)
        /\ ~HasAssertion(manifest, "c2pa.hash.data") =>
              HasIssue(op.result, "MISSING_HASH_ASSERTION")

CertTrustCodes == {"NO_CERTIFICATE_CHAIN", "NO_TRUSTED_CERTS", "UNTRUSTED_CERTIFICATE"}

\* C11 (SpecValidate): certificate-trust failures are warnings only.  For a
\* signed manifest certificate_trusted is true iff a trusted certificate is a
\* member of the signature's chain; a failing stage appends exactly one
\* warning and no error issue, a passing stage appends nothing; so a valid
\* signature with no other error has trust level BASIC.
C11_CertTrustWarningsOnly ==
    (op.name = "validate" /\ manifest.signature.present) =>
        LET chain == manifest.signature.certificate_chain
            member == \E c \in trusted_certificates : \E i \in 1..Len(chain) : chain[i] = c
            ct == _validate_certificate_trust(manifest, trusted_certificates, <<>>, <<>>)
        IN /\ op.result.certificate_trusted = member
           /\ ct.ok = member
           /\ ct.issues = <<>>
           /\ Len(ct.warnings) = (IF member THEN 0 ELSE 1)
           /\ \A i \in 1..Len(ct.warnings) :
                 ct.warnings[i].severity = "warning" /\ ct.warnings[i].code \in CertTrustCodes
           /\ \A i \in 1..Len(op.result.issues) : op.result.issues[i].code \notin CertTrustCodes
           /\ Cardinality({i \in 1..Len(op.result.warnings) :
                              op.result.warnings[i].code \in CertTrustCodes})
                 = (IF member THEN 0 ELSE 1)
           /\ ~member =>
                 \A cc \in BOOLEAN :
                    _determine_trust_level(TRUE, ct.ok, cc, Len(ct.issues)) = "basic"

C11_Witness ==
    /\ op.name = "validate"
    /\ manifest.signature.present
    /\ manifest.signature.certificate_chain = <<"certA">>
    /\ trusted_certificates = {"certB"}
    /\ ~op.result.certificate_trusted
    /\ HasWarning(op.result, "UNTRUSTED_CERTIFICATE")

\* C12 (Spec): verification never raises.  Signer.verify returns a boolean
\* for every manifest and tag, and false for a manifest without a signature.
C12_VerifyNeverRaises ==
    op.name = "verify" =>
        /\ op.exc = "none"
        /\ ~manifest.signature.present => op.ret = FALSE

\* C13 (SpecPrim): signing with no key material loaded fails.  Whatever the
\* tag, a Signer without a private key raises and produces no signature.
C13_NoKeyNoSignature ==
    (prim.name = "sign_verify" /\ prim.key.kind = "none")
    => (prim.sign_exc # "none" /\ prim.signature = <<>>)

\* C14 (Spec): the signature field is excluded from the signed bytes.  After
\* sign() the canonical bytes of the manifest exist and are the canonical
\* bytes of the same manifest with its signature replaced or removed, and a
\* signature that sign() stored is the signature of those bytes.
C14_SignatureExcluded ==
    op.name = "sign" =>
        LET manifest_data == _prepare_manifest_for_signing(manifest)
        IN /\ manifest_data.exc = "none"
           /\ \A sg \in SessionSignatures :
                 _prepare_manifest_for_signing([manifest EXCEPT !.signature = sg]) = manifest_data
           /\ op.exc = "none" =>
                 /\ manifest.signature.present
                 /\ \E salt \in Salts :
                       _compute_signature(signer, manifest_data.val, salt)
                          = Ok(manifest.signature.signature_value)

\* C15 (Spec): canonicalization is deterministic and order-sensitive.  When
\* sign() or verify() has canonicalized the manifest, canonicalizing it again
\* gives the same bytes, and the manifest with two distinct assertions
\* exchanged canonicalizes to other bytes.
C15_CanonicalOrder ==
    (op.name = "sign" \/ (op.name = "verify" /\ manifest.signature.present)) =>
        LET again == _prepare_manifest_for_signing(manifest)
            a == manifest.assertions
        IN /\ again.exc = "none"
           /\ op.exc \in {"none", "ValueError"}
           /\ (Len(a) = 2 /\ a[1] # a[2]) =>
                 LET swapped == _prepare_manifest_for_signing(
                                    [manifest EXCEPT !.assertions = <<a[2], a[1]>>])
                 IN swapped.exc = "none" /\ swapped.val # again.val

\* the policy an evaluation ran, and whether it is the caller's policy of one rule
EvaluatedRules == engine.policies[evaluation.policy_name].rules
SingleRuleEvaluated(rule_types) ==
    /\ evaluation.name = "evaluate"
    /\ evaluation.policy_name = "custom"
    /\ "custom" \in DOMAIN engine.policies
    /\ Len(engine.policies["custom"].rules) = 1
    /\ engine.policies["custom"].rules[1].enabled
    /\ engine.policies["custom"].rules[1].rule_type \in rule_types
NamedViolations(name) ==
    {i \in 1..Len(evaluation.violations) : evaluation.violations[i].rule_name = name}

\* C16 (SpecPolicy): the pass rule.  An evaluation that returned has passed
\* iff none of its violations has severity ERROR, and every violation names
\* an enabled rule of the policy: a disabled rule contributes none.
C16_PassRule ==
    (evaluation.name = "evaluate" /\ evaluation.exc = "none") =>
        /\ evaluation.passed =
              (\A i \in 1..Len(evaluation.violations) :
                  evaluation.violations[i].severity # "error")
        /\ \A i \in 1..Len(evaluation.violations) :
              \E j \in 1..Len(EvaluatedRules) :
                 /\ EvaluatedRules[j].enabled
                 /\ EvaluatedRules[j].name = evaluation.violations[i].rule_name

C16_Witness ==
    /\ evaluation.name = "evaluate"
    /\ evaluation.exc = "none"
    /\ evaluation.passed
    /\ \E i \in 1..Len(evaluation.violations) : evaluation.violations[i].severity = "warning"
    /\ \E j \in 1..Len(EvaluatedRules) :
          ~EvaluatedRules[j].enabled /\ EvaluatedRules[j].severity = "error"

\* C17 (SpecPolicy): custom-predicate escalation.  For a custom-function rule
\* of any severity evaluate() returns; an unregistered name or a raising
\* predicate gives exactly one violation of severity ERROR and a failed
\* policy, a predicate returning false one violation at the rule's severity,
\* a predicate returning true none.
C17_CustomEscalation ==
    (SingleRuleEvaluated({"custom_function"})
        /\ engine.policies["custom"].rules[1].custom_function # "") =>
        LET rule == engine.policies["custom"].rules[1]
            registered == rule.custom_function \in DOMAIN engine.custom_functions
            does == engine.custom_functions[rule.custom_function]
            expected == IF ~registered \/ does = "raise" THEN <<"error">>
                        ELSE IF does = "false" THEN <<rule.severity>>
                        ELSE <<>>
        IN /\ evaluation.exc = "none"
           /\ Len(evaluation.violations) = Len(expected)
           /\ \A i \in 1..Len(evaluation.violations) :
                 /\ evaluation.violations[i].rule_name = rule.name
                 /\ evaluation.violations[i].severity = expected[i]
           /\ (~registered \/ does = "raise") => ~evaluation.passed

C17_Witness ==
    /\ SingleRuleEvaluated({"custom_function"})
    /\ engine.policies["custom"].rules[1].severity = "info"
    /\ "f" \in DOMAIN engine.custom_functions
    /\ engine.custom_functions["f"] = "raise"
    /\ Len(evaluation.violations) = 1
    /\ evaluation.violations[1].severity = "error"
    /\ ~evaluation.passed

FirstWorkflow ==
    manifest.assertions[CHOOSE i \in 1..Len(manifest.assertions) :
        /\ manifest.assertions[i].label = "org.enterprise.workflow"
        /\ \A j \in 1..Len(manifest.assertions) :
              manifest.assertions[j].label = "org.enterprise.workflow" => i <= j]

\* C18 (SpecPolicy): the classification constraint.  An enabled
\* classification rule yields exactly one violation, naming the rule at its
\* severity, when there is no workflow assertion, when the first workflow
\* assertion has no classification or when that classification is not among
\* the levels the rule allows; it yields none when the classification is
\* allowed (a rule without levels allows every classification).
C18_Classification ==
    (evaluation.name = "evaluate" /\ evaluation.exc = "none") =>
        \A j \in 1..Len(EvaluatedRules) :
            (EvaluatedRules[j].rule_type = "classification_constraint" /\ EvaluatedRules[j].enabled) =>
                LET rule == EvaluatedRules[j]
                    levels == {rule.classification_levels[k] : k \in 1..Len(rule.classification_levels)}
                    violated ==
                        \/ ~\E i \in 1..Len(manifest.assertions) :
                               manifest.assertions[i].label = "org.enterprise.workflow"
                        \/ "classification" \notin DOMAIN FirstWorkflow.data.v
                        \/ (levels # {} /\ FirstWorkflow.data.v.classification \notin levels)
                IN /\ Cardinality(NamedViolations(rule.name)) = (IF violated THEN 1 ELSE 0)
                   /\ \A i \in NamedViolations(rule.name) :
                         evaluation.violations[i].severity = rule.severity

C18_Witness ==
    /\ SingleRuleEvaluated({"classification_constraint"})
    /\ engine.policies["custom"].rules[1].classification_levels = <<"confidential", "secret">>
    /\ engine.policies["custom"].rules[1].severity = "error"
    /\ Len(manifest.assertions) = 2
    /\ manifest.assertions[1] = Assertion("org.enterprise.workflow", WorkflowPublic)
    /\ manifest.assertions[2] = Assertion("org.enterprise.workflow", WorkflowSecret)
    /\ evaluation.violations = <<PolicyViolation("classification", "error", "Invalid classification level")>>

\* C19 (SpecPolicy): absent fields and constraints.  On a field that is
\* absent a required-field rule yields exactly one violation and a
\* value-constraint rule none; on a present field a value-constraint rule
\* whose bounds are of the field's type yields one violation for each failed
\* check among allowed-set membership, minimum and maximum.
C19_AbsentAndConstraints ==
    (SingleRuleEvaluated({"required_field", "value_constraint"})
        /\ engine.policies["custom"].rules[1].field_path # "") =>
        LET rule == engine.policies["custom"].rules[1]
            value == getattr(manifest, rule.field_path)
            typed == /\ rule.min_value.t \in {"None", value.t}
                     /\ rule.max_value.t \in {"None", value.t}
            failed ==
                (IF rule.allowed_values # <<>> /\ ~PyIn(value, rule.allowed_values)
                 THEN {"has invalid value"} ELSE {})
                \cup (IF rule.min_value.t # "None" /\ PyLess(value, rule.min_value).val
                      THEN {"below minimum"} ELSE {})
                \cup (IF rule.max_value.t # "None" /\ PyLess(rule.max_value, value).val
                      THEN {"above maximum"} ELSE {})
        IN IF value.t = "None"
           THEN /\ evaluation.exc = "none"
                /\ Len(evaluation.violations) =
                      (IF rule.rule_type = "required_field" THEN 1 ELSE 0)
           ELSE (rule.rule_type = "value_constraint" /\ typed) =>
                /\ evaluation.exc = "none"
                /\ Len(evaluation.violations) = Cardinality(failed)
                /\ {evaluation.violations[i].message : i \in 1..Len(evaluation.violations)} = failed
                /\ \A i \in 1..Len(evaluation.violations) :
                      /\ evaluation.violations[i].rule_name = rule.name
                      /\ evaluation.violations[i].severity = rule.severity

C19_Witness ==
    /\ SingleRuleEvaluated({"value_constraint"})
    /\ engine.policies["custom"].rules[1].field_path = "format"
    /\ evaluation.exc = "none"
    /\ Len(evaluation.violations) = 3

\* C20 (SpecPolicy): compliance errors are results.  evaluate() of a
\* registered policy returns a result and never raises.
C20_EvaluateNeverRaises ==
    (evaluation.name = "evaluate" /\ evaluation.policy_name \in DOMAIN engine.policies)
    => evaluation.exc = "none"

HasNamespacePrefix(v) == StartsWith(v, "xmp:iid:") \/ StartsWith(v, "uuid:")

C24_InstanceIdNormalized ==
    /\ HasNamespacePrefix(manifest.instance_id)
    /\ validate_instance_id(manifest.instance_id) = manifest.instance_id
    /\ \E v \in InstanceIds \cup {<<"a">>} :
          manifest.instance_id = IF HasNamespacePrefix(v) THEN v ELSE <<"xmp:iid:">> \o v
    /\ \A v \in InstanceIds \cup {<<>>, <<"a", "uuid:">>, <<"xmp:iid:">>} :
          LET m == Manifest("Acme/1.0", "image/jpeg", v, <<>>, NoSignature)
          IN /\ HasNamespacePrefix(m.instance_id)
             /\ m.instance_id = IF HasNamespacePrefix(v) THEN v ELSE <<"xmp:iid:">> \o v
             /\ Manifest("Acme/1.0", "image/jpeg", m.instance_id, <<>>, NoSignature) = m
    /\ \A workflow_id \in DOMAIN workflows : HasNamespacePrefix(workflow_id)

C24_Witness ==
    /\ manifest.instance_id = <<"uuid:", "b">>
    /\ <<"xmp:iid:", "a">> \in DOMAIN workflows
    /\ <<"uuid:", "b">> \in DOMAIN workflows

\* the table entries that leave the current state of workflow workflow_id by action
TableEntries(ws, workflow_id, action) ==
    IF workflow_id \notin DOMAIN ws
    THEN {}
    ELSE {t \in {_initialize_transitions[i] : i \in 1..Len(_initialize_transitions)} :
             t.from_state = ws[workflow_id].current_state /\ t.action = action}

\* C26 (SpecWorkflow): transition rejects what the table does not allow.
\* When the workflow id is unknown, or no table entry leaves the workflow's
\* current state by the requested action, transition raises ValueError and
\* leaves every workflow (current_state, history, updated_at) as it was; when
\* it succeeds, exactly one table entry matches and the new state is its
\* to_state.
C26_TransitionRejects ==
    [][call'.name = "transition" =>
         LET entries == TableEntries(workflows, call'.workflow_id, call'.action)
         IN /\ entries = {} => (call'.exc = "ValueError" /\ workflows' = workflows)
            /\ call'.exc = "ValueError" => entries = {}
            /\ call'.exc # "none" => workflows' = workflows
            /\ call'.exc = "none" =>
                  /\ Cardinality(entries) = 1
                  /\ \A t \in entries :
                        workflows'[call'.workflow_id].current_state = t.to_state]_vars

C26_Witness ==
    /\ call.name = "transition" /\ call.exc = "ValueError"
    /\ call.workflow_id \in DOMAIN workflows
    /\ workflows[call.workflow_id].current_state = "in_review"
    /\ call.action = "publish" /\ call.user_role = "administrator"

\* C27 (SpecWorkflow): role gating.  A transition changes a workflow only when
\* the caller's role is the matching entry's required_role or "administrator";
\* any other role on a matching entry gets PermissionError and nothing changes.
\* get_available_actions(workflow, role) lists exactly the actions for which
\* transition with that role would succeed.
C27_RoleGating ==
    [][/\ call'.name = "transition" =>
            LET entries == TableEntries(workflows, call'.workflow_id, call'.action)
                allowed == \E t \in entries : \/ call'.user_role = t.required_role
                                              \/ call'.user_role = "administrator"
            IN /\ workflows' # workflows => allowed
               /\ (entries # {} /\ ~allowed)
                     => (call'.exc = "PermissionError" /\ workflows' = workflows)
               /\ call'.exc = "PermissionError" => (entries # {} /\ ~allowed)
       /\ call'.name = "get_available_actions" =>
            \A action \in WorkflowAction :
               (\E i \in 1..Len(call'.ret) : call'.ret[i] = action)
               <=> transition(workflows, call'.workflow_id, action, "u1",
                              call'.user_role).exc = "none"]_vars

C27_Witness ==
    /\ call.name = "transition" /\ call.exc = "PermissionError"
    /\ call.user_role = "reviewer" /\ call.action = "approve"
    /\ workflows[call.workflow_id].current_state = "in_review"

\* s is an initial segment of t
IsPrefix(s, t) == Len(s) <= Len(t) /\ SubSeq(t, 1, Len(s)) = s

HistoryWellFormed(workflow) ==
    LET history == workflow.history
    IN /\ Len(history) > 0 => history[1].from_state = "draft"
       /\ \A i \in 2..Len(history) : history[i].from_state = history[i - 1].to_state
       /\ \A i \in 1..Len(history) :
             \E k \in 1..Len(_initialize_transitions) :
                /\ _initialize_transitions[k].from_state = history[i].from_state
                /\ _initialize_transitions[k].action = history[i].action
                /\ _initialize_transitions[k].to_state = history[i].to_state
       /\ workflow.current_state =
             IF history = <<>> THEN "draft" ELSE history[Len(history)].to_state

\* C28 (SpecWorkflow): workflow history invariant.  In every state the
\* history of every workflow instance starts from DRAFT, chains each entry's
\* from_state to the previous entry's to_state, holds only entries of the
\* transition table, and ends in current_state (DRAFT when it is empty); and
\* every step on an instance keeps its history as an initial segment of the
\* new one.  (create_workflow puts a new instance in place; that is C29.)
C28_HistoryInvariant ==
    [][/\ \A workflow_id \in DOMAIN workflows' : HistoryWellFormed(workflows'[workflow_id])
       /\ \A workflow_id \in DOMAIN workflows :
            /\ workflow_id \in DOMAIN workflows'
            /\ ~(call'.name = "create_workflow" /\ call'.workflow_id = workflow_id)
                 => IsPrefix(workflows[workflow_id].history,
                             workflows'[workflow_id].history)]_vars

C28_Witness ==
    /\ call.name = "transition" /\ call.exc = "none"
    /\ workflows[call.workflow_id].current_state = "archived"
    /\ \E i \in 1..Len(workflows[call.workflow_id].history) :
          workflows[call.workflow_id].history[i].action = "recall"

\* the last transition into PUBLISHED is preceded, after the last RECALL, by a
\* SUBMIT, then a REVIEW, then an APPROVE taken from IN_REVIEW
PublishedAfterReviewAndApproval(history) ==
    LET recalls == {i \in 1..Len(history) : history[i].action = "recall"}
    IN \E i, j, k \in 1..Len(history) :
          /\ \A r \in recalls : r < i
          /\ i < j /\ j < k
          /\ history[i].action = "submit"
          /\ history[j].action = "review"
          /\ history[k].action = "approve" /\ history[k].from_state = "in_review"

OrderingAndTerminal(ws) ==
    \A workflow_id \in DOMAIN ws :
       /\ ws[workflow_id].current_state \in {"published", "archived"}
            => PublishedAfterReviewAndApproval(ws[workflow_id].history)
       /\ ws[workflow_id].current_state = "archived"
            => \A user_role \in UserRoles :
                  /\ get_available_actions(ws, workflow_id, user_role) = <<>>
                  /\ \A action \in WorkflowAction :
                        transition(ws, workflow_id, action, "u1", user_role).exc # "none"

\* C29 (SpecWorkflow): workflow ordering.  A workflow is PUBLISHED only after
\* an APPROVE from IN_REVIEW that follows a SUBMIT and a REVIEW, also after a
\* REJECT and RECALL cycle; ARCHIVED is terminal for every role; and
\* create_workflow for a manifest that already has a workflow keeps that
\* workflow's state and history.
C29_WorkflowOrdering ==
    [][/\ OrderingAndTerminal(workflows')
       /\ (call'.name = "create_workflow" /\ call'.workflow_id \in DOMAIN workflows)
            => /\ workflows'[call'.workflow_id].current_state
                    = workflows[call'.workflow_id].current_state
               /\ workflows'[call'.workflow_id].history
                    = workflows[call'.workflow_id].history]_vars

\* C22 (SpecCodec): wrong assertion kind.  add_approval_to_workflow and
\* update_compliance_check on an assertion whose label is not
\* "org.enterprise.workflow" raise ValueError and leave the assertion (and the
\* manifest that holds it) unchanged; on a workflow assertion both succeed.
C22_WrongAssertionKind ==
    [][call'.name \in {"add_approval_to_workflow", "update_compliance_check"} =>
         LET target == manifest.assertions[call'.target]
         IN /\ target.label # "org.enterprise.workflow"
                 => (call'.exc = "ValueError" /\ manifest' = manifest)
            /\ target.label = "org.enterprise.workflow"
                 => (call'.exc = "none"
                     /\ manifest'.assertions[call'.target].label = target.label)]_vars

C22_Witness ==
    /\ call.name = "update_compliance_check" /\ call.exc = "ValueError"
    /\ call.legal_review = Some("passed")
    /\ Len(manifest.assertions) = 2
    /\ manifest.assertions[call.target] = Assertion("c2pa.hash.data", HashOk)
    /\ ChainLength(manifest.assertions[3 - call.target]) = 2

\* the flags a compliance update was called with
PassedFlags(c) ==
    {k \in {"pdpa_approved", "trademark_cleared", "legal_review"} : c[k] # None}

\* C23 (SpecCodec): the approval chain is append-only.  Over every step on a
\* manifest's workflow assertions the chain before is an initial segment of
\* the chain after and no compliance flag disappears; a successful add_approval
\* appends exactly the given step at the end and changes nothing else; a
\* successful update_compliance sets exactly the flags that were passed and
\* leaves the chain, the other flags and the rest of the payload as they were.
C23_ApprovalChainAppendOnly ==
    [][/\ \A i \in 1..Len(manifest.assertions) :
            (i <= Len(manifest'.assertions)
               /\ manifest.assertions[i].label = "org.enterprise.workflow")
            => /\ manifest'.assertions[i].label = "org.enterprise.workflow"
               /\ IsPrefix(manifest.assertions[i].data.v.approval_chain,
                           manifest'.assertions[i].data.v.approval_chain)
               /\ DOMAIN manifest.assertions[i].data.v.compliance_check
                     \subseteq DOMAIN manifest'.assertions[i].data.v.compliance_check
       /\ (call'.name \in {"add_approval_to_workflow", "add_approval"} /\ call'.exc = "none")
            => LET before == manifest.assertions[call'.target]
               IN manifest'.assertions =
                     [manifest.assertions EXCEPT ![call'.target] =
                        [before EXCEPT !.data.v.approval_chain = Append(@, call'.step)]]
       /\ (call'.name \in {"update_compliance_check", "update_compliance"}
             /\ call'.exc = "none")
            => LET before == manifest.assertions[call'.target].data.v
                   after == manifest'.assertions[call'.target].data.v
               IN /\ \A i \in 1..Len(manifest.assertions) :
                        i # call'.target => manifest'.assertions[i] = manifest.assertions[i]
                  /\ Len(manifest'.assertions) = Len(manifest.assertions)
                  /\ after.approval_chain = before.approval_chain
                  /\ after.workflow_id = before.workflow_id
                  /\ after.classification = before.classification
                  /\ DOMAIN after.compliance_check
                        = DOMAIN before.compliance_check \cup PassedFlags(call')
                  /\ \A k \in DOMAIN after.compliance_check :
                        after.compliance_check[k] =
                           IF k \in PassedFlags(call')
                           THEN call'[k][1]
                           ELSE before.compliance_check[k]]_vars

C23_Witness ==
    /\ call.name = "update_compliance" /\ call.exc = "none"
    /\ call.pdpa_approved = Some(TRUE) /\ call.legal_review = None
    /\ LET data == manifest.assertions[call.target].data.v
       IN /\ Len(data.approval_chain) = 3
          /\ "legal_review" \in DOMAIN data.compliance_check
          /\ data.compliance_check.pdpa_approved
          /\ ~data.compliance_check.trademark_cleared
          /\ data.compliance_check.export_control_passed

\* C25 (SpecCodec): add_assertion.  A step that adds an assertion appends
\* exactly the assertion with the given label and data at the end of the
\* list, keeps the earlier assertions in order, sets updated_at, and leaves
\* the rest of the manifest, the signature included, as it was; get_assertion
\* of that label then returns the first assertion with the label.
C25_AddAssertionFrame ==
    [][Len(manifest'.assertions) = Len(manifest.assertions) + 1 =>
         LET added == manifest'.assertions[Len(manifest'.assertions)]
         IN /\ manifest'.assertions = Append(manifest.assertions, added)
            /\ call'.name = "add_assertion" => added = call'.assertion
            /\ manifest'.updated_at # 0
            /\ [manifest' EXCEPT !.assertions = manifest.assertions,
                                 !.updated_at = manifest.updated_at] = manifest
            /\ get_assertion(manifest', added.label) =
                  IF HasAssertion(manifest, added.label)
                  THEN get_assertion(manifest, added.label)
                  ELSE added]_vars

====
